---- MODULE Spec2Model ----
(***************************************************************************)
(* A model of the monguito repository core: MongooseRepository (find, save *)
(* as insert-or-update, deleteById), the type map it hydrates with, and    *)
(* the soft-delete deleteAll of the example book repository that runs in   *)
(* a transaction.  The document store (a Mongoose model over one           *)
(* collection) is a sequence of documents in storage order; a session      *)
(* sees and writes a private copy, taken when its transaction starts,      *)
(* that commit publishes and abort drops, and several transactions are     *)
(* open side by side.  An operation that awaits the store more than once   *)
(* is as many steps, under a session as without one, and the steps of      *)
(* other callers fall in between.  A write outside a transaction waits for *)
(* what an open transaction has written, a write inside one fails on what  *)
(* another has written; a call that gets to write nothing waits for        *)
(* nothing.                                                                *)
(***************************************************************************)
EXTENDS Integers, Sequences, FiniteSets, TLC

\* ---------------------------------------------------------------- bounds
\* most documents the collection holds when every operation is explored
MaxDocs == 2
\* most documents the collection holds when queries are explored
MaxFindDocs == 3
\* most successful saves of one unit of work
MaxTxSaves == 2
\* most identifiers the store generates in one behaviour
MaxId == 3
\* highest version an auditable document is driven to
MaxVersion == 2
\* largest page number / page size tried by findAll
MaxPage == 3
\* callers whose saves run concurrently
MaxCallers == 2

\* ------------------------------------------------------------ JS values
Undefined == "undefined"
Null == "null"
\* a property that the object does not have at all
Omit == "omitted"
\* the version property is a number; this stands for "not there"
NoV == -1
NoSession == "none"

\* the sessions of the transactions that are open side by side, in the
\* order they are started in
SessionPool == <<"session1", "session2">>
Sessions == {SessionPool[n] : n \in DOMAIN SessionPool}

\* the identifier the store generates for the n-th written document
IdOf(n) == "id" \o ToString(n)
Ids == {IdOf(n) : n \in 1..(MaxId + 1)}

\* a string that is not an identifier of the store (no ObjectId)
MalformedId == "bad"

\* can the store cast the string to an identifier
WellFormed(id) == id # MalformedId

Titles == {"a", "b"}
Isbns == {"n1", "n2"}

\* position of a value in the store's sort order of a path (missing first)
Rank(x) == CASE x = Undefined -> 0
             [] x = "n1" -> 1
             [] x = "n2" -> 2
             [] OTHER -> 3

\* a test that takes only undefined and null for missing
Falsy_NullOnly(x) == x \in {Undefined, Null, Omit}

\* !x of JavaScript, for the strings used as identifiers
Falsy(x) == x \in {Undefined, Null, Omit, ""}

\* ------------------------------------------------------------ type map
\* the type maps of the repositories under src/: the book repository of
\* the tests (test/repository/book.repository.ts, domain unnamed/part_002)
\* and the auditable book repository (unnamed/part_003)
\* A repository is given as the arguments of its constructor: hasDefault
\* says whether the map has a Default entry, Default.type is the supertype
\* constructor (Undefined when the entry gives none), typeNames the other
\* keys of the map and subtypeData the constructors registered under them,
\* modelName the option of that name (Undefined when not given);
\* auditable and softDelete say what the classes of the domain carry (a
\* version; the flag isDeleted).
BookTypeMap ==
  [name |-> "book",
   hasDefault |-> TRUE,
   Default |-> [type |-> "Book"],
   typeNames |-> <<"PaperBook", "AudioBook">>,
   subtypeData |-> <<[type |-> "PaperBook"], [type |-> "AudioBook"]>>,
   modelName |-> Undefined,
   auditable |-> FALSE,
   softDelete |-> FALSE]

\* the book repository of the example application
\* (examples/.../book.repository.ts): the same map over the classes of the
\* example's domain, whose books carry the soft-delete flag isDeleted; it
\* overrides deleteById and adds deleteAll
ExampleBookTypeMap == [BookTypeMap EXCEPT !.name = "example", !.softDelete = TRUE]

AuditableTypeMap ==
  [name |-> "auditable",
   hasDefault |-> TRUE,
   Default |-> [type |-> "AuditableBook"],
   typeNames |-> <<"AuditablePaperBook">>,
   subtypeData |-> <<[type |-> "AuditablePaperBook"]>>,
   modelName |-> Undefined,
   auditable |-> TRUE,
   softDelete |-> FALSE]

TypeMaps == {BookTypeMap, AuditableTypeMap}

\* the repository without base class of test/repository/book.repository.ts:
\* its Default entry has no type, and the keys PaperBook and AudioBook
\* register the constructors PaperBook2 and AudioBook2
WithoutBaseClassTypeMap ==
  [name |-> "withoutbase",
   hasDefault |-> TRUE,
   Default |-> [type |-> Undefined],
   typeNames |-> <<"PaperBook", "AudioBook">>,
   subtypeData |-> <<[type |-> "PaperBook2"], [type |-> "AudioBook2"]>>,
   modelName |-> Undefined,
   auditable |-> FALSE,
   softDelete |-> FALSE]

\* the same with the model name given in the options
NamedModelTypeMap == [WithoutBaseClassTypeMap EXCEPT !.name = "named", !.modelName = "Book"]

\* ... and with an empty model name
EmptyModelNameTypeMap == [WithoutBaseClassTypeMap EXCEPT !.name = "emptyname", !.modelName = ""]

\* a book repository whose keys register the constructors of the
\* subclasses PaperBook2 and AudioBook2
RenamedTypeMap ==
  [BookTypeMap EXCEPT !.name = "renamed",
                      !.subtypeData = <<[type |-> "PaperBook2"], [type |-> "AudioBook2"]>>]

\* a map without Default entry, with and without a model name
NoDefaultTypeMap ==
  [name |-> "nodefault",
   hasDefault |-> FALSE,
   Default |-> [type |-> Undefined],
   typeNames |-> <<"PaperBook", "AudioBook">>,
   subtypeData |-> <<[type |-> "PaperBook"], [type |-> "AudioBook"]>>,
   modelName |-> Undefined,
   auditable |-> FALSE,
   softDelete |-> FALSE]

NoDefaultNamedTypeMap == [NoDefaultTypeMap EXCEPT !.name = "nodefaultnamed", !.modelName = "Book"]

\* the constructor arguments tried
TypeMapInputs ==
  TypeMaps \cup {WithoutBaseClassTypeMap, NamedModelTypeMap, EmptyModelNameTypeMap,
                 RenamedTypeMap, NoDefaultTypeMap, NoDefaultNamedTypeMap}

\* Array.prototype.indexOf, 1-based, 0 when absent
IndexOf(seq, x) ==
  IF \E i \in 1..Len(seq) : seq[i] = x
  THEN CHOOSE i \in 1..Len(seq) : seq[i] = x /\ \A j \in 1..(i - 1) : seq[j] # x
  ELSE 0

getSupertypeName(map) == map.Default.type

getSupertypeType(map) == map.Default.type

\* the constructor registered under a key, Undefined when there is none
getSubtypeData(map, type) ==
  LET index == IndexOf(map.typeNames, type)
  IN IF index # 0 THEN map.subtypeData[index].type ELSE Undefined

\* has that looks the name up among the registered constructors
has_ByConstructor(map, type) ==
  \/ type = getSupertypeName(map)
  \/ \E i \in 1..Len(map.subtypeData) : map.subtypeData[i].type = type

has(map, type) ==
  type = getSupertypeName(map) \/ IndexOf(map.typeNames, type) # 0

\* the discriminators createEntityModel registers on the model are named
\* after the constructors of the subtypes: is the key the name of one
isDiscriminator(map, key) ==
  \E i \in 1..Len(map.subtypeData) : map.subtypeData[i].type = key

\* ------------------------------------------------------------- entities
\* A value handed to save: js is "object" for an object, else the falsy
\* value given instead; cls is its constructor name ("Object" for a plain
\* partial); every other field is a property, Omit when not present (the
\* description is set apart with EXCEPT by the entities that have one).
\* An instance of a class of the domain owns the properties its constructor
\* assigns, id and description among them: they are undefined when the
\* constructor was given none.
IsInstance(cls) == cls \notin {"Object", ""}

Entity(cls, id, t, title, isbn, isDeleted, v) ==
  [js |-> "object", cls |-> cls,
   id |-> IF IsInstance(cls) /\ id = Omit THEN Undefined ELSE id,
   t |-> t,
   title |-> IF IsInstance(cls) /\ title = Omit THEN Undefined ELSE title,
   description |-> IF IsInstance(cls) THEN Undefined ELSE Omit,
   isbn |-> IF IsInstance(cls) /\ isbn = Omit THEN Undefined ELSE isbn,
   isDeleted |-> isDeleted, v |-> v]

NoEntity == [js |-> Undefined, cls |-> "", id |-> Omit, t |-> Omit,
             title |-> Omit, description |-> Omit, isbn |-> Omit,
             isDeleted |-> Omit, v |-> NoV]

NullEntity == [NoEntity EXCEPT !.js = Null]

\* a stored document; t is the discriminator key __t, Omit when not stored
Doc(id, t, title, isbn, isDeleted, v) ==
  [id |-> id, t |-> t, title |-> title, description |-> Undefined, isbn |-> isbn,
   isDeleted |-> isDeleted, v |-> v]

\* isAuditable of util/audit, on an entity: its class is of the auditable family
AuditableClasses == {"AuditableBook", "AuditablePaperBook"}

isAuditable(entity) == entity.cls \in AuditableClasses

\* isAuditable on a document of the repository's model
isAuditableDocument(map) == map.auditable

\* ---------------------------------------------------------------- codec
\* instantiateFrom on a non-null document: ok with the entity the resolved
\* constructor builds from the document's plain fields, or not ok when no
\* constructor is registered (UndefinedConstructorException)
instantiateFrom(map, document) ==
  LET entityKey == document.t
      constructor == IF ~Falsy(entityKey)
                     THEN getSubtypeData(map, entityKey)
                     ELSE getSupertypeType(map)
  IN IF constructor # Undefined
     THEN [ok |-> TRUE,
           val |-> [Entity(constructor, document.id, Omit, document.title,
                           document.isbn,
                           IF map.softDelete THEN document.isDeleted ELSE Omit,
                           IF constructor \in AuditableClasses
                           THEN document.v ELSE NoV)
                      EXCEPT !.description = document.description]]
     ELSE [ok |-> FALSE, val |-> NoEntity]

setDiscriminatorKeyOn(map, entity) ==
  LET entityClassName == entity.cls
      isSubtype == entityClassName # getSupertypeName(map)
      hasEntityDiscriminatorKey == entity.t # Omit
  IN IF isSubtype /\ ~hasEntityDiscriminatorKey
     THEN [entity EXCEPT !.t = entityClassName]
     ELSE entity

\* ---------------------------------------------------------------- store
\* The database as one operation sees it: main is the committed collection,
\* tx the copy the transaction of each session works on, snap the committed
\* collection as it was when that transaction started (both empty while
\* the session has none), nid the number of the next identifier the store
\* generates.
Read(db, session) == IF session = NoSession THEN db.main ELSE db.tx[session]

\* a write that drops the session it was given
Write_Main(db, session, docs) == [db EXCEPT !.main = docs]

Write(db, session, docs) ==
  IF session = NoSession THEN [db EXCEPT !.main = docs]
  ELSE [db EXCEPT !.tx[session] = docs]

\* position of the document with the given _id, 0 when there is none
FindIndex(docs, id) ==
  IF \E i \in 1..Len(docs) : docs[i].id = id
  THEN CHOOSE i \in 1..Len(docs) : docs[i].id = id
  ELSE 0

RemoveAt(docs, i) == SubSeq(docs, 1, i - 1) \o SubSeq(docs, i + 1, Len(docs))

IdsOf(docs) == {docs[i].id : i \in 1..Len(docs)}

DocOf(docs, id) == docs[CHOOSE i \in 1..Len(docs) : docs[i].id = id]

\* the documents the transaction of the session has written and not yet
\* committed, and the ids of those it has removed
TxChanged(db, session) ==
  {db.tx[session][i] :
     i \in {j \in 1..Len(db.tx[session]) :
              \/ db.tx[session][j].id \notin IdsOf(db.snap[session])
              \/ DocOf(db.snap[session], db.tx[session][j].id) # db.tx[session][j]}}

TxRemoved(db, session) == IdsOf(db.snap[session]) \ IdsOf(db.tx[session])

\* the documents and the unique keys an open transaction holds
RowLockedBy(db, session, id) ==
  id \in TxRemoved(db, session) \/ \E e \in TxChanged(db, session) : e.id = id

KeyLockedBy(db, session, id, isbn) ==
  isbn # Undefined /\ \E e \in TxChanged(db, session) : e.id # id /\ e.isbn = isbn

\* a write outside the transactions waits for the documents and the unique
\* keys an open transaction has written
RowLocked(db, id) == \E session \in Sessions : RowLockedBy(db, session, id)

KeyLocked(db, id, isbn) == \E session \in Sessions : KeyLockedBy(db, session, id, isbn)

\* does a write outside the transactions that would set the paths modified
\* on the stored document of the id have to wait
Waits(db, document, modified) ==
  /\ modified # {}
  /\ document.id \in IdsOf(db.main)
  /\ \/ RowLocked(db, document.id)
     \/ "isbn" \in modified /\ KeyLocked(db, document.id, document.isbn)

\* a write inside a transaction fails when the document was written or
\* removed outside since the transaction started, or is held by another
\* open transaction ...
RowConflict(db, session, id) ==
  /\ session # NoSession
  /\ \/ /\ id \in IdsOf(db.snap[session])
        /\ \/ id \notin IdsOf(db.main)
           \/ DocOf(db.main, id) # DocOf(db.snap[session], id)
     \/ \E other \in Sessions \ {session} : RowLockedBy(db, other, id)

\* ... or when its unique key was taken outside since, or is held by
\* another open transaction
KeyConflict(db, session, id, isbn) ==
  /\ session # NoSession
  /\ isbn # Undefined
  /\ \/ \E i \in 1..Len(db.main) :
          /\ db.main[i].id # id /\ db.main[i].isbn = isbn
          /\ ~(/\ db.main[i].id \in IdsOf(db.snap[session])
               /\ DocOf(db.snap[session], db.main[i].id).isbn = isbn)
     \/ \E other \in Sessions \ {session} : KeyLockedBy(db, other, id, isbn)

WriteConflict(db, session, document) ==
  RowConflict(db, session, document.id)
    \/ KeyConflict(db, session, document.id, document.isbn)

\* one call to the store, with the session it was issued under
Call(fn, session) == [fn |-> fn, session |-> session]

\* the rules of the book schemas: isbn is required, which the document
\* validates itself before anything is sent to the store ...
Invalid(document) == document.isbn = Undefined

\* ... and unique, which an index of the store sees to when it writes
Duplicate(docs, document) ==
  \E i \in 1..Len(docs) : docs[i].id # document.id /\ docs[i].isbn = document.isbn

\* what a new document is rejected with, "" when it is not
SchemaError(docs, document) ==
  IF Invalid(document) THEN "validation failed"
  ELSE IF Duplicate(docs, document) THEN "duplicate key error"
  ELSE ""

\* documentSave that validates a new document but never writes it
documentSave_NoAppend(db, document, session) ==
  LET docs == Read(db, session)
      err == SchemaError(docs, document)
      i == FindIndex(docs, document.id)
      inserted == [document EXCEPT !.v = 0]
  IN IF err # "" THEN [ok |-> FALSE, err |-> err, db |-> db, doc |-> document]
     ELSE IF WriteConflict(db, session, document)
          THEN [ok |-> FALSE, err |-> "WriteConflict", db |-> db, doc |-> document]
     ELSE IF i # 0
          THEN [ok |-> TRUE, err |-> "", doc |-> inserted,
                db |-> Write(db, session, [docs EXCEPT ![i] = inserted])]
          ELSE [ok |-> TRUE, err |-> "", doc |-> inserted, db |-> db]

\* document.save({session}) of a new document (isNew): validates, then
\* inserts the document (in place of one of its _id, if any); the store's
\* insert sets the version key to 0 whatever the document carried.  err is
\* the store's message when it rejects, doc the document as saved
documentSave(db, document, session) ==
  LET docs == Read(db, session)
      err == SchemaError(docs, document)
      i == FindIndex(docs, document.id)
      inserted == [document EXCEPT !.v = 0]
  IN IF err # "" THEN [ok |-> FALSE, err |-> err, db |-> db, doc |-> document]
     ELSE IF WriteConflict(db, session, document)
          THEN [ok |-> FALSE, err |-> "WriteConflict", db |-> db, doc |-> document]
     ELSE IF i # 0
          THEN [ok |-> TRUE, err |-> "", doc |-> inserted,
                db |-> Write(db, session, [docs EXCEPT ![i] = inserted])]
          ELSE [ok |-> TRUE, err |-> "", doc |-> inserted,
                db |-> [Write(db, session, Append(docs, inserted))
                          EXCEPT !.nid = db.nid + 1]]

\* the paths of a document, and those an update of it has modified
Paths == {"t", "title", "description", "isbn", "isDeleted", "v"}

Modified(read, document) == {path \in Paths : document[path] # read[path]}

\* a save of a document that is not new which writes the document anew when
\* the store has none of its _id
documentUpdate_Upsert(db, read, document, session) ==
  LET docs == Read(db, session)
      i == FindIndex(docs, document.id)
      modified == Modified(read, document)
  IN IF Invalid(document)
     THEN [ok |-> FALSE, err |-> "validation failed", db |-> db]
     ELSE IF i = 0
     THEN [ok |-> TRUE, err |-> "",
           db |-> Write(db, session, Append(docs, document))]
     ELSE IF modified = {} THEN [ok |-> TRUE, err |-> "", db |-> db]
     ELSE IF "isbn" \in modified /\ Duplicate(docs, document)
     THEN [ok |-> FALSE, err |-> "duplicate key error", db |-> db]
     ELSE IF WriteConflict(db, session, document)
     THEN [ok |-> FALSE, err |-> "WriteConflict", db |-> db]
     ELSE [ok |-> TRUE, err |-> "",
           db |-> Write(db, session,
                        [docs EXCEPT ![i] =
                           [path \in DOMAIN document |->
                              IF path \in modified THEN document[path]
                              ELSE docs[i][path]]])]

\* document.save({session}) of a document that is not new (isNew = false):
\* the document validates itself; then its modified paths are written to
\* the stored document of its _id, and the store rejects the save when it
\* has none (the document was deleted since it was read), and the write
\* when it breaks the unique index; with no path modified the store is
\* only asked whether it has the document
documentUpdate(db, read, document, session) ==
  LET docs == Read(db, session)
      i == FindIndex(docs, document.id)
      modified == Modified(read, document)
  IN IF Invalid(document)
     THEN [ok |-> FALSE, err |-> "validation failed", db |-> db]
     ELSE IF i = 0
     THEN [ok |-> FALSE, err |-> "No document found for query", db |-> db]
     ELSE IF modified = {} THEN [ok |-> TRUE, err |-> "", db |-> db]
     ELSE IF "isbn" \in modified /\ Duplicate(docs, document)
     THEN [ok |-> FALSE, err |-> "duplicate key error", db |-> db]
     ELSE IF WriteConflict(db, session, document)
     THEN [ok |-> FALSE, err |-> "WriteConflict", db |-> db]
     ELSE [ok |-> TRUE, err |-> "",
           db |-> Write(db, session,
                        [docs EXCEPT ![i] =
                           [path \in DOMAIN document |->
                              IF path \in modified THEN document[path]
                              ELSE docs[i][path]]])]

\* ------------------------------------------------------------- outcomes
\* What an operation hands back to its caller: kind is "ok" or the class
\* of the exception thrown, msg its message, names the identifier or type
\* the message names, cause the class of the wrapped error, present/val an
\* Optional or entity result, vals a sequence result, flag a boolean and
\* n a count; calls lists the store calls the operation issued.
Res(kind, msg, names, cause, calls) ==
  [kind |-> kind, msg |-> msg, names |-> names, cause |-> cause,
   present |-> FALSE, val |-> NoEntity, vals |-> <<>>, flag |-> FALSE,
   n |-> 0, calls |-> calls]

IllegalArgument(msg, names, calls) ==
  Res("IllegalArgumentException", msg, names, "", calls)

OkEntity(entity, calls) ==
  [Res("ok", "", "", "", calls) EXCEPT !.present = TRUE, !.val = entity]

OkEmpty(calls) == Res("ok", "", "", "", calls)

UndefinedConstructor(id, calls) ==
  Res("UndefinedConstructorException",
      "There is no registered instance constructor for the document with ID",
      id, "", calls)

StoreError(msg, calls) == Res("StoreError", msg, "", "", calls)

\* the options of an operation
Options(session, filters, pageable, sortBy) ==
  [session |-> session, filters |-> filters, pageable |-> pageable,
   sortBy |-> sortBy]

NoFilters == [js |-> Undefined, field |-> "", value |-> ""]
NullFilters == [js |-> Null, field |-> "", value |-> ""]
Filters(field, value) == [js |-> "object", field |-> field, value |-> value]
NoPageable == [js |-> Undefined, pageNumber |-> 0, offset |-> 0]
Pageable(pageNumber, offset) ==
  [js |-> "object", pageNumber |-> pageNumber, offset |-> offset]

NoOptions == Options(NoSession, NoFilters, NoPageable, Undefined)
WithSession(session) == Options(session, NoFilters, NoPageable, Undefined)

\* a store call that failed because the id cannot be cast (CastError)
CastError(calls) == StoreError("Cast to ObjectId failed", calls)

\* ---------------------------------------------------------- construction
\* new TypeMapImpl(map): the map must have its Default entry
TypeMapImpl(map) ==
  IF ~map.hasDefault
  THEN IllegalArgument("The given map must include domain supertype data", "", <<>>)
  ELSE OkEmpty(<<>>)

\* createEntityModel that takes the model name from the supertype only
createEntityModel_NoOverride(map) ==
  LET modelName == getSupertypeName(map)
  IN IF Falsy(modelName)
     THEN IllegalArgument("Either a base class must be provided or the model name must be specified in the options.",
                          "", <<>>)
     ELSE OkEmpty(<<>>)

\* createEntityModel: the model is named after the supertype constructor
\* or, when there is none, by the modelName option
createEntityModel(map) ==
  LET modelName == IF getSupertypeName(map) \notin {Undefined, Null}
                   THEN getSupertypeName(map) ELSE map.modelName
  IN IF Falsy(modelName)
     THEN IllegalArgument("Either a base class must be provided or the model name must be specified in the options.",
                          "", <<>>)
     ELSE OkEmpty(<<>>)

\* the constructor of MongooseRepository: ok, or the exception it throws
MongooseRepository(map) ==
  IF TypeMapImpl(map).kind # "ok" THEN TypeMapImpl(map) ELSE createEntityModel(map)

\* ----------------------------------------------------- repository core
\* new this.entityModel(entity) with the next generated _id; an auditable
\* entity gets version 0 whatever it carried
createDocumentAndSetUserId(db, entity) ==
  LET document ==
        Doc(IdOf(db.nid), entity.t,
            IF entity.title = Omit THEN Undefined ELSE entity.title,
            IF entity.isbn = Omit THEN Undefined ELSE entity.isbn,
            IF entity.isDeleted \in {Omit, Undefined} THEN "false"
            ELSE entity.isDeleted,
            IF entity.v = NoV THEN 0 ELSE entity.v)
      described == [document EXCEPT
                      !.description = IF entity.description = Omit THEN Undefined
                                      ELSE entity.description]
  IN IF isAuditable(entity) THEN [described EXCEPT !.v = 0] ELSE described

\* document.set(entity): every property the entity has replaces the
\* document's value, an undefined one unsets it; absent ones are kept.  The
\* discriminator key is a path like the others
documentSet(document, entity) ==
  [document EXCEPT
     !.t = IF entity.t = Omit THEN @ ELSE entity.t,
     !.title = IF entity.title = Omit THEN @ ELSE entity.title,
     !.description = IF entity.description = Omit THEN @ ELSE entity.description,
     !.isbn = IF entity.isbn = Omit THEN @ ELSE entity.isbn,
     !.isDeleted = IF entity.isDeleted = Omit THEN @ ELSE entity.isDeleted,
     !.v = IF entity.v = NoV THEN @ ELSE entity.v]

deleteById(db, id, options) ==
  IF Falsy(id)
  THEN [db |-> db, out |-> IllegalArgument("The given ID must be valid", "", <<>>)]
  ELSE LET docs == Read(db, options.session)
           i == FindIndex(docs, id)
           calls == <<Call("findByIdAndDelete", options.session)>>
       IN IF ~WellFormed(id) THEN [db |-> db, out |-> CastError(calls)]
          ELSE IF i # 0 /\ RowConflict(db, options.session, id)
          THEN [db |-> db, out |-> StoreError("WriteConflict", calls)]
          ELSE IF i # 0
          THEN [db |-> Write(db, options.session, RemoveAt(docs, i)),
                out |-> [OkEmpty(calls) EXCEPT !.flag = TRUE]]
          ELSE [db |-> db, out |-> [OkEmpty(calls) EXCEPT !.flag = FALSE]]

\* deleteById as the example's book repository overrides it:
\* findByIdAndUpdate(id, {isDeleted: true}) keeps the document and sets its
\* soft-delete flag; true when a document matched
softDeleteById(db, id, options) ==
  IF Falsy(id)
  THEN [db |-> db, out |-> IllegalArgument("The given ID must be valid", "", <<>>)]
  ELSE LET docs == Read(db, options.session)
           i == FindIndex(docs, id)
           calls == <<Call("findByIdAndUpdate", options.session)>>
       IN IF ~WellFormed(id) THEN [db |-> db, out |-> CastError(calls)]
          ELSE IF i # 0 /\ RowConflict(db, options.session, id)
          THEN [db |-> db, out |-> StoreError("WriteConflict", calls)]
          ELSE IF i # 0
          THEN [db |-> Write(db, options.session,
                             [docs EXCEPT ![i] = [@ EXCEPT !.isDeleted = "true"]]),
                out |-> [OkEmpty(calls) EXCEPT !.flag = TRUE]]
          ELSE [db |-> db, out |-> [OkEmpty(calls) EXCEPT !.flag = FALSE]]

\* does the document satisfy the query filter (no filter matches all)
Matches(document, filters) ==
  \/ filters.js # "object"
  \/ filters.field = ""
  \/ document[filters.field] = filters.value

\* the documents of seq ordered by isbn, ascending or descending
RECURSIVE SortByIsbn(_, _)
SortByIsbn(seq, ascending) ==
  IF seq = <<>> THEN <<>>
  ELSE LET i == CHOOSE i \in 1..Len(seq) :
                  \A j \in 1..Len(seq) :
                     IF ascending
                     THEN Rank(seq[i].isbn) < Rank(seq[j].isbn)
                          \/ (Rank(seq[i].isbn) = Rank(seq[j].isbn) /\ i <= j)
                     ELSE Rank(seq[i].isbn) > Rank(seq[j].isbn)
                          \/ (Rank(seq[i].isbn) = Rank(seq[j].isbn) /\ i <= j)
       IN <<seq[i]>> \o SortByIsbn(RemoveAt(seq, i), ascending)

Sorted(seq, sortBy) ==
  CASE sortBy = "isbn" -> SortByIsbn(seq, TRUE)
    [] sortBy = "-isbn" -> SortByIsbn(seq, FALSE)
    [] OTHER -> seq

\* a query that pages the matched documents before it sorts them
Query_PageBeforeSort(docs, filters, skip, limit, sortBy) ==
  LET matched == SelectSeq(docs, LAMBDA d : Matches(d, filters))
      skipped == SubSeq(matched, skip + 1, Len(matched))
  IN IF limit = 0 \/ limit >= Len(skipped) THEN Sorted(skipped, sortBy)
     ELSE Sorted(SubSeq(skipped, 1, limit), sortBy)

\* a query that takes limit 0 for "no documents"
Query_ZeroLimit(docs, filters, skip, limit, sortBy) ==
  LET matched == SelectSeq(docs, LAMBDA d : Matches(d, filters))
      sorted == Sorted(matched, sortBy)
      skipped == SubSeq(sorted, skip + 1, Len(sorted))
  IN IF limit >= Len(skipped) THEN skipped
     ELSE SubSeq(skipped, 1, limit)

\* the query find(filters).skip(skip).limit(limit).sort(sortBy): the store
\* filters, sorts, skips and then limits; limit 0 means no limit
Query(docs, filters, skip, limit, sortBy) ==
  LET matched == SelectSeq(docs, LAMBDA d : Matches(d, filters))
      sorted == Sorted(matched, sortBy)
      skipped == SubSeq(sorted, skip + 1, Len(sorted))
  IN IF limit = 0 \/ limit >= Len(skipped) THEN skipped
     ELSE SubSeq(skipped, 1, limit)

findAll(map, db, options) ==
  IF options.pageable.pageNumber # 0 /\ options.pageable.pageNumber < 0
  THEN [db |-> db,
        out |-> IllegalArgument("The given page number must be a positive number", "", <<>>)]
  ELSE IF options.pageable.offset # 0 /\ options.pageable.offset < 0
  THEN [db |-> db,
        out |-> IllegalArgument("The given page offset must be a positive number", "", <<>>)]
  ELSE
    LET offset == options.pageable.offset
        pageNumber == options.pageable.pageNumber
        calls == <<Call("find", options.session)>>
        documents == Query(Read(db, options.session), options.filters,
                           IF pageNumber > 0 THEN (pageNumber - 1) * offset ELSE 0,
                           offset, options.sortBy)
        hydrated == [i \in 1..Len(documents) |-> instantiateFrom(map, documents[i])]
    IN IF \A i \in 1..Len(documents) : hydrated[i].ok
       THEN [db |-> db,
             out |-> [OkEmpty(calls) EXCEPT
                        !.vals = [i \in 1..Len(documents) |-> hydrated[i].val]]]
       ELSE [db |-> db,
             out |-> Res("IllegalArgumentException",
                         "The given optional parameters must be valid", "",
                         "UndefinedConstructorException", calls)]

findById(map, db, id, options) ==
  IF Falsy(id)
  THEN [db |-> db, out |-> IllegalArgument("The given ID must be valid", "", <<>>)]
  ELSE LET docs == Read(db, options.session)
           i == FindIndex(docs, id)
           calls == <<Call("findById", options.session)>>
       IN IF ~WellFormed(id) THEN [db |-> db, out |-> CastError(calls)]
          ELSE IF i = 0 THEN [db |-> db, out |-> OkEmpty(calls)]
          ELSE LET h == instantiateFrom(map, docs[i])
               IN IF h.ok THEN [db |-> db, out |-> OkEntity(h.val, calls)]
                  ELSE [db |-> db, out |-> UndefinedConstructor(docs[i].id, calls)]

findOne(map, db, filters, options) ==
  IF filters.js # "object" /\ options.filters.js # "object"
  THEN [db |-> db, out |-> IllegalArgument("Missing search criteria (filters)", "", <<>>)]
  ELSE LET used == IF options.filters.js = "object" THEN options.filters ELSE filters
           found == Query(Read(db, options.session), used, 0, 1, Undefined)
           calls == <<Call("findOne", options.session)>>
       IN IF found = <<>> THEN [db |-> db, out |-> OkEmpty(calls)]
          ELSE LET h == instantiateFrom(map, found[1])
               IN IF h.ok THEN [db |-> db, out |-> OkEntity(h.val, calls)]
                  ELSE [db |-> db, out |-> UndefinedConstructor(found[1].id, calls)]

\* insert that saves the document before it looks the class up
insert_CheckLate(map, db, entity, options) ==
  IF entity.js # "object"
  THEN [db |-> db, out |-> IllegalArgument("The given entity must be valid", "", <<>>)]
  ELSE LET document == createDocumentAndSetUserId(db, setDiscriminatorKeyOn(map, entity))
           calls == <<Call("save", options.session)>>
           saved == documentSave(db, document, options.session)
           h == instantiateFrom(map, saved.doc)
       IN IF ~saved.ok THEN [db |-> db, out |-> StoreError(saved.err, calls)]
          ELSE IF ~has(map, entity.cls)
          THEN [db |-> saved.db,
                out |-> IllegalArgument("The entity is not included in the setup of the custom repository",
                                        entity.cls, calls)]
          ELSE IF h.ok THEN [db |-> saved.db, out |-> OkEntity(h.val, calls)]
          ELSE [db |-> saved.db, out |-> UndefinedConstructor(document.id, calls)]

insert(map, db, entity, options) ==
  IF entity.js # "object"
  THEN [db |-> db, out |-> IllegalArgument("The given entity must be valid", "", <<>>)]
  ELSE IF ~has(map, entity.cls)
  THEN [db |-> db,
        out |-> IllegalArgument("The entity is not included in the setup of the custom repository",
                                entity.cls, <<>>)]
  ELSE LET document == createDocumentAndSetUserId(db, setDiscriminatorKeyOn(map, entity))
           calls == <<Call("save", options.session)>>
           saved == documentSave(db, document, options.session)
           h == instantiateFrom(map, saved.doc)
       IN IF ~saved.ok THEN [db |-> db, out |-> StoreError(saved.err, calls)]
          ELSE IF h.ok THEN [db |-> saved.db, out |-> OkEntity(h.val, calls)]
          ELSE [db |-> saved.db, out |-> UndefinedConstructor(document.id, calls)]

\* findById answers a document that carries the key of a discriminator
\* with a document of that discriminator's model, whose key cannot be set
\* to another value: document.set(entity) records a cast error for it
KeyRefused(map, read, entity) ==
  entity.t # Omit /\ entity.t # read.t /\ isDiscriminator(map, read.t)

\* the document update is about to save: the entity is set on the document
\* read and an auditable document gets its version bumped
changed(map, read, entity) ==
  IF isAuditableDocument(map)
  THEN [documentSet(read, entity) EXCEPT !.v = (IF @ = NoV THEN 0 ELSE @) + 1]
  ELSE documentSet(read, entity)

\* update that saves the document it read without the session it was given
updated_SaveNoSession(map, db, read, entity, options) ==
  LET document == changed(map, read, entity)
      calls == <<Call("findById", options.session), Call("save", NoSession)>>
      saved == IF KeyRefused(map, read, entity)
               THEN [ok |-> FALSE, err |-> "validation failed", db |-> db]
               ELSE documentUpdate(db, read, document, NoSession)
      h == instantiateFrom(map, document)
  IN IF ~saved.ok THEN [db |-> db, out |-> StoreError(saved.err, calls)]
     ELSE IF h.ok THEN [db |-> saved.db, out |-> OkEntity(h.val, calls)]
     ELSE [db |-> saved.db, out |-> UndefinedConstructor(document.id, calls)]

\* update once its findById has answered with the document: the entity is
\* set on it, an auditable document gets its version bumped, and the
\* document is saved (its validation reports a discriminator key that was
\* refused) and instantiated
updated(map, db, read, entity, options) ==
  LET document == changed(map, read, entity)
      calls == <<Call("findById", options.session), Call("save", options.session)>>
      saved == IF KeyRefused(map, read, entity)
               THEN [ok |-> FALSE, err |-> "validation failed", db |-> db]
               ELSE documentUpdate(db, read, document, options.session)
      h == instantiateFrom(map, document)
  IN IF ~saved.ok THEN [db |-> db, out |-> StoreError(saved.err, calls)]
     ELSE IF h.ok THEN [db |-> saved.db, out |-> OkEntity(h.val, calls)]
     ELSE [db |-> saved.db, out |-> UndefinedConstructor(document.id, calls)]

update(map, db, entity, options) ==
  IF entity.js # "object"
  THEN [db |-> db, out |-> IllegalArgument("The given entity must be valid", "", <<>>)]
  ELSE
    LET docs == Read(db, options.session)
        i == FindIndex(docs, entity.id)
        found == <<Call("findById", options.session)>>
    IN IF ~WellFormed(entity.id) THEN [db |-> db, out |-> CastError(found)]
       ELSE IF i # 0 THEN updated(map, db, docs[i], entity, options)
       ELSE [db |-> db,
             out |-> IllegalArgument("There is no document matching the given ID",
                                     entity.id, found)]

\* a catch block that knows the uniqueness violation only
translated_UniqueOnly(entity, r) ==
  IF r.out.kind = "ok" THEN r
  ELSE IF r.out.msg \in {"duplicate key error"}
  THEN [db |-> r.db,
        out |-> Res("ValidationException",
                    "One or more fields of the given entity do not specify valid values",
                    "", r.out.msg, r.out.calls)]
  ELSE IF r.out.kind = "UndefinedConstructorException"
  THEN [db |-> r.db,
        out |-> IllegalArgument("The entity is not included in the setup of the custom repository",
                                entity.cls, r.out.calls)]
  ELSE r

\* the catch block of save: what the caller gets for the outcome r of
\* insert or update
translated(entity, r) ==
  IF r.out.kind = "ok" THEN r
  ELSE IF r.out.msg \in {"validation failed", "duplicate key error"}
  THEN [db |-> r.db,
        out |-> Res("ValidationException",
                    "One or more fields of the given entity do not specify valid values",
                    "", r.out.msg, r.out.calls)]
  ELSE IF r.out.kind = "UndefinedConstructorException"
  THEN [db |-> r.db,
        out |-> IllegalArgument("The entity is not included in the setup of the custom repository",
                                entity.cls, r.out.calls)]
  ELSE r

save(map, db, entity, options) ==
  IF entity.js # "object"
  THEN [db |-> db, out |-> IllegalArgument("The given entity must be valid", "", <<>>)]
  ELSE translated(entity, IF Falsy(entity.id) THEN insert(map, db, entity, options)
                          ELSE update(map, db, entity, options))

\* ---------------------------------------------------------- transactions
\* runInTransaction: the session works on a copy of the committed
\* collection as it was when the transaction started; commit publishes what
\* the transaction wrote, abort drops it
startTransaction(db, session) ==
  [db EXCEPT !.tx[session] = db.main, !.snap[session] = db.main]

\* the committed collection with the writes of the transaction applied:
\* the documents it removed are gone, the ones it changed take its version,
\* the ones it inserted follow
Merged(db, session) ==
  LET kept == SelectSeq(db.main, LAMBDA d : d.id \notin TxRemoved(db, session))
  IN [i \in 1..Len(kept) |->
        IF RowLockedBy(db, session, kept[i].id) THEN DocOf(db.tx[session], kept[i].id)
        ELSE kept[i]]
     \o SelectSeq(db.tx[session], LAMBDA e : e.id \notin IdsOf(db.snap[session]))

commitTransaction(db, session) ==
  [db EXCEPT !.main = Merged(db, session), !.tx[session] = <<>>, !.snap[session] = <<>>]

abortTransaction(db, session) ==
  [db EXCEPT !.tx[session] = <<>>, !.snap[session] = <<>>]

\* the results of a batch so far, with the outcome of its next save
collected(prev, this) ==
  IF this.out.kind # "ok"
  THEN [this EXCEPT !.out.calls = prev.out.calls \o @]
  ELSE [db |-> this.db,
        out |-> [prev.out EXCEPT !.vals = Append(@, this.out.val),
                                 !.calls = @ \o this.out.calls]]

\* a saveAll that saves without the options it was given
saveAll_NoSession(map, db, entities, read, options) ==
  translated(entities[1], updated(map, db, read, entities[1], NoOptions))

\* saveAll saves the entities one after the other under the options, each
\* save awaited before the next: this is the save of the first that is
\* left, from the answer of its findById (the document read) on
saveAll(map, db, entities, read, options) ==
  translated(entities[1], updated(map, db, read, entities[1], options))

\* the books found, each with its soft-delete flag set
booksToDelete(books) == [i \in 1..Len(books) |-> [books[i] EXCEPT !.isDeleted = "true"]]

\* the end of runInTransaction: abort with the error of the unit of work,
\* or commit with the number of books written
settled(session, deletedBooks) ==
  IF deletedBooks.out.kind # "ok"
  THEN [db |-> abortTransaction(deletedBooks.db, session),
        out |-> [deletedBooks.out EXCEPT
                   !.calls = @ \o <<Call("abortTransaction", session)>>]]
  ELSE [db |-> commitTransaction(deletedBooks.db, session),
        out |-> [OkEmpty(deletedBooks.out.calls
                         \o <<Call("commitTransaction", session)>>)
                   EXCEPT !.n = Len(deletedBooks.out.vals)]]

\* the unit of work of deleteAll up to the books its findAll found: the
\* transaction is aborted when findAll fails, else the books to write are
\* at hand (vals) and the transaction is open
unitOfWork(map, begun, session, books) ==
  LET start == <<Call("startTransaction", session)>>
  IN IF books.out.kind # "ok"
     THEN [db |-> abortTransaction(begun, session),
           out |-> [books.out EXCEPT
                      !.calls = start \o @ \o <<Call("abortTransaction", session)>>]]
     ELSE [db |-> begun,
           out |-> [books.out EXCEPT !.calls = start \o @,
                                     !.vals = booksToDelete(@)]]

\* deleteAll whose guard also turns away filters left undefined
deleteAll_NoNullish(map, db, session, options) ==
  IF options.filters.js \in {Null, Undefined}
  THEN [db |-> db, out |-> IllegalArgument("Null filters are disallowed", "", <<>>)]
  ELSE unitOfWork(map, startTransaction(db, session), session,
                  findAll(map, startTransaction(db, session),
                          Options(session, options.filters, NoPageable, Undefined)))

\* deleteAll of the example book repository: soft-deletes every book the
\* filters match, in one transaction, whose session runInTransaction starts;
\* this is deleteAll up to the answer of its findAll, the saves and the
\* commit follow one by one
deleteAll(map, db, session, options) ==
  IF options.filters.js = Null
  THEN [db |-> db, out |-> IllegalArgument("Null filters are disallowed", "", <<>>)]
  ELSE unitOfWork(map, startTransaction(db, session), session,
                  findAll(map, startTransaction(db, session),
                          Options(session, options.filters, NoPageable, Undefined)))

\* ---------------------------------------------------------------- state
\* repo: the type map the repository was constructed with
\* cap:  the most documents the collection is let to hold
\* db:   the database (committed collection, the copy and the snapshot of
\*       each session's transaction, next id)
\* txn:  for each session, the unit of work run through runInTransaction
\*       under it, if any: its status, the committed collection when it
\*       started, its successful saves, the operation that runs it
\*       (runInTransaction called by the client, or deleteAll), for
\*       deleteAll its options, the books still to save and the results so
\*       far, and the update its save has in flight between the read and
\*       the write under the session
\* last: the operation whose outcome a caller is about to take, with its
\*       arguments; op is "none" between two operations
\* pending: for each caller, the update it has in flight between the read
\*       of the stored document and the write: the entity given to save
\*       and the document read
VARIABLES repo, cap, db, txn, last, pending

vars == <<repo, cap, db, txn, last, pending>>

Callers == 1..MaxCallers

NoFlight == [stage |-> "idle"]

IdleTxn == [status |-> "idle", pre |-> <<>>, saves |-> 0, op |-> "",
            options |-> NoOptions, todo |-> <<>>, out |-> OkEmpty(<<>>),
            flight |-> NoFlight]

Last(op, entity, id, filters, options, out) ==
  [op |-> op, entity |-> entity, id |-> id, filters |-> filters,
   options |-> options, out |-> out]

NoLast == Last("none", NoEntity, Omit, NoFilters, NoOptions, OkEmpty(<<>>))

NoDb == [main |-> <<>>, tx |-> [session \in Sessions |-> <<>>],
         snap |-> [session \in Sessions |-> <<>>], nid |-> 1]

InitWith(maps, docs) ==
  /\ repo \in maps
  /\ cap = docs
  /\ db = NoDb
  /\ txn = [session \in Sessions |-> IdleTxn]
  /\ last = NoLast
  /\ pending = [c \in Callers |-> NoFlight]

Init == InitWith(TypeMaps, MaxDocs)

\* the repositories units of work are run on
InitTx == InitWith({ExampleBookTypeMap}, MaxDocs)

\* a repository is constructed with one of the type maps and options tried;
\* the caller is about to take the repository or the exception
InitNew ==
  /\ repo \in TypeMapInputs
  /\ cap = MaxDocs
  /\ db = NoDb
  /\ txn = [session \in Sessions |-> IdleTxn]
  /\ last = Last("new", NoEntity, Omit, NoFilters, NoOptions, MongooseRepository(repo))
  /\ pending = [c \in Callers |-> NoFlight]

\* ---------------------------------------------------------------- inputs
\* a discriminator no type map registers
UnknownKey == "Unknown"

\* a class no type map registers (ElectronicBook of the test domain)
UnregisteredClass == "ElectronicBook"

\* the supertype and the first subtype of the map
InputClasses(map) == {getSupertypeType(map), map.subtypeData[1].type}

\* new entities: instances of a class, without id; some carry a
\* discriminator key of their own
NewEntities(map) ==
  {Entity(cls, Omit, Omit, "a", isbn, Omit, NoV) :
     cls \in InputClasses(map), isbn \in Isbns \cup {Undefined}}
  \cup {Entity(getSupertypeType(map), Omit, UnknownKey, "a", "n1", Omit, NoV)}

\* entities that carry an id: instances of the supertype, which have every
\* property of the class, and plain partials, which have some
EntitiesWithId(map) ==
  {Entity(getSupertypeType(map), IdOf(1), Omit, "b", "n1", Omit, NoV),
   Entity("Object", IdOf(1), Omit, "b", "n2", Omit, NoV)}
  \cup {Entity("Object", id, Omit, "b", Omit, Omit, NoV) :
          id \in {IdOf(1), IdOf(2), MalformedId}}

\* the entities callers save side by side
ConcurrentNew(map) ==
  {Entity(cls, Omit, t, "a", isbn, Omit, NoV) :
     cls \in InputClasses(map), t \in {Omit, UnknownKey}, isbn \in {"n1", Undefined}}

ConcurrentWithId(map) ==
  {Entity("Object", id, Omit, "b", Omit, Omit, NoV) : id \in Ids}

\* the entities a unit of work saves
TxEntities(map) ==
  {Entity(getSupertypeType(map), Omit, Omit, "a", isbn, Omit, NoV) :
     isbn \in {"n1", Undefined}}
  \cup {Entity(getSupertypeType(map), Omit, UnknownKey, "a", "n1", Omit, NoV)}
  \cup {Entity("Object", IdOf(1), Omit, "b", Omit, Omit, NoV)}

\* the entities saved next to the units of work
OutsideEntities(map) ==
  {Entity(getSupertypeType(map), Omit, Omit, "a", isbn, Omit, NoV) : isbn \in Isbns}
  \cup {Entity("Object", IdOf(1), Omit, "b", Omit, Omit, NoV)}

\* what a unit of work saves next to a bulk deletion: a partial of the
\* first document
UnitEntities == {Entity("Object", IdOf(1), Omit, "b", Omit, Omit, NoV)}

\* the entities saved next to the bulk deletions
BulkEntities(map) ==
  OutsideEntities(map)
  \cup {Entity(getSupertypeType(map), Omit, UnknownKey, "a", "n1", Omit, NoV)}

\* what save turns away before it calls the store: nothing at all, and a
\* new entity of a class that is not registered
InvalidEntities ==
  {NullEntity, Entity(UnregisteredClass, Omit, Omit, "a", "n1", Omit, NoV)}

\* the entities stored before queries are explored
FindEntities(map) ==
  {Entity(getSupertypeType(map), Omit, Omit, title, isbn, Omit, NoV) :
     title \in Titles, isbn \in Isbns}

\* new entities of the classes of the test domain, of the subclasses the
\* repository without base class registers and of the auditable domain;
\* some carry an empty discriminator key of their own
TypeEntities ==
  {Entity(cls, Omit, t, "a", isbn, Omit, NoV) :
     cls \in {"Book", "PaperBook", "PaperBook2", "ElectronicBook", "AuditablePaperBook"},
     t \in {Omit, ""}, isbn \in Isbns}

\* what a save may carry: new entities, one with a version of its own; an
\* instance with the id of a document; partials with the id of a document
\* that leave out, unset or give the title and the description, that unset
\* or change the isbn, that carry a version or a discriminator key; and a
\* partial whose id is malformed
SaveEntities(map) ==
  {Entity(cls, Omit, Omit, "a", isbn, Omit, NoV) :
     cls \in InputClasses(map), isbn \in Isbns \cup {Undefined}}
  \cup {Entity(getSupertypeType(map), Omit, Omit, "a", "n1", Omit, 1),
        Entity(getSupertypeType(map), IdOf(1), Omit, "b", "n1", Omit, NoV)}
  \cup {[Entity("Object", id, Omit, title, Omit, Omit, NoV)
           EXCEPT !.description = description] :
          id \in {IdOf(1), IdOf(2)}, title \in {Omit, "b"},
          description \in {Omit, Undefined, "d"}}
  \cup {Entity("Object", id, Omit, Omit, isbn, Omit, NoV) :
          id \in {IdOf(1), IdOf(2)}, isbn \in {Undefined, "n1"}}
  \cup {Entity("Object", IdOf(1), t, Omit, Omit, Omit, NoV) :
          t \in {map.typeNames[1], UnknownKey}}
  \cup {Entity("Object", IdOf(1), Omit, "b", Omit, Omit, 0),
        Entity("Object", MalformedId, Omit, "b", Omit, Omit, NoV)}

\* the entities concurrent callers save
RaceEntities(map) ==
  {Entity(getSupertypeType(map), Omit, Omit, "a", "n1", Omit, NoV)}
  \cup {Entity("Object", IdOf(1), Omit, title, Omit, Omit, NoV) : title \in {Omit, "b"}}
  \cup {Entity("Object", IdOf(1), Omit, Omit, Undefined, Omit, NoV)}

IdInputs == Ids \cup {Undefined, Null, "", MalformedId}

FiltersInputs == {NoFilters, NullFilters, Filters("", ""), Filters("title", "a")}

PageableInputs ==
  {NoPageable} \cup {Pageable(p, s) : p \in (-1)..MaxPage, s \in (-1)..MaxPage}

SortInputs == {Undefined, "isbn", "-isbn"}

\* would the save write a new document / drive a version past the bound
WithinBounds(docs, nid, entity) ==
  IF Falsy(entity.id)
  THEN Len(docs) < cap /\ nid <= MaxId
  ELSE \A i \in 1..Len(docs) : docs[i].id = entity.id => docs[i].v < MaxVersion

\* -------------------------------------------------------------- actions
\* a caller issues an operation on a repository that was constructed, once
\* the outcome of the last operation was taken
Ready == last.op = "none" /\ MongooseRepository(repo).kind = "ok"

\* what is left of the records of the units of work once the outcome of an
\* operation was taken: an open one goes on, a closed one is forgotten
Others(t) ==
  [session \in Sessions |-> IF t[session].status = "active" THEN t[session] ELSE IdleTxn]

\* the caller takes the outcome of the last operation
Return ==
  /\ last.op # "none"
  /\ last' = NoLast
  /\ txn' = Others(txn)
  /\ UNCHANGED <<repo, cap, db, pending>>

\* the operation ends: the database is as it left it and the caller is
\* about to take its outcome
Done(op, entity, id, filters, options, r) ==
  /\ db' = r.db
  /\ last' = Last(op, entity, id, filters, options, r.out)

\* the session of the transaction runInTransaction starts next (the first
\* of the pool that has none open); none while every session has one
Started ==
  IF \A session \in Sessions : txn[session].status = "active" THEN NoSession
  ELSE SessionPool[CHOOSE n \in DOMAIN SessionPool :
                     /\ txn[SessionPool[n]].status # "active"
                     /\ \A m \in 1..(n - 1) : txn[SessionPool[m]].status = "active"]

\* the unit of work a client runs under the session is open and awaits
\* nothing: it may issue its next operation, or end
Running(session) ==
  /\ txn[session].status = "active" /\ txn[session].op = "runInTransaction"
  /\ txn[session].flight.stage = "idle"

\* an operation is issued without session by any caller, and with a session
\* by the unit of work that runs under it
Issued(session) == IF session = NoSession THEN TRUE ELSE Running(session)

\* save awaits the store twice when the entity has the id of a document
\* the session sees (update: findById, then document.save), once at most
\* otherwise
InTwoSteps(entity, session) ==
  /\ entity.js = "object" /\ ~Falsy(entity.id) /\ WellFormed(entity.id)
  /\ FindIndex(Read(db, session), entity.id) # 0

\* the new document the save gets to write to the store, if any: the entity
\* is one of a registered class without id, and its document is valid
Inserts(entity, session) ==
  /\ entity.js = "object" /\ Falsy(entity.id) /\ has(repo, entity.cls)
  /\ SchemaError(Read(db, session),
                 createDocumentAndSetUserId(db, setDiscriminatorKeyOn(repo, entity))) = ""

\* save of an entity that calls the store once or not at all: an insert, an
\* entity turned away, an id that matches no document.  The insert that
\* gets to the store waits for a unique key an open transaction has
\* written; a save that is turned away before waits for nothing
Save(entity) ==
  /\ Ready
  /\ ~InTwoSteps(entity, NoSession)
  /\ Inserts(entity, NoSession) =>
       /\ WithinBounds(db.main, db.nid, entity)
       /\ ~KeyLocked(db, IdOf(db.nid), entity.isbn)
  /\ Done("save", entity, entity.id, NoFilters, NoOptions,
          save(repo, db, entity, NoOptions))
  /\ UNCHANGED <<repo, cap, txn, pending>>

\* save of an entity with the id of a stored document, up to the answer of
\* update's findById: the update is in flight
UpdateRead(c, entity) ==
  /\ Ready
  /\ pending[c].stage = "idle"
  /\ InTwoSteps(entity, NoSession)
  /\ WithinBounds(db.main, db.nid, entity)
  /\ pending' = [pending EXCEPT
                   ![c] = [stage |-> "read", entity |-> entity,
                           document |-> db.main[FindIndex(db.main, entity.id)]]]
  /\ UNCHANGED <<repo, cap, db, txn, last>>

\* does the write of the update in flight get to write: the document is
\* valid and the unique index lets the write pass
Writes(read, entity) ==
  /\ ~KeyRefused(repo, read, entity)
  /\ ~Invalid(changed(repo, read, entity))
  /\ ~(/\ "isbn" \in Modified(read, changed(repo, read, entity))
       /\ Duplicate(db.main, changed(repo, read, entity)))

\* ... and from there on: the document read is changed, saved and
\* instantiated, and save hands the entity or the translated error back.
\* The write that gets to the store waits for an open transaction that has
\* written the document or the unique key asked for
UpdateWrite(c) ==
  /\ Ready
  /\ pending[c].stage = "read"
  /\ Writes(pending[c].document, pending[c].entity)
       => ~Waits(db, changed(repo, pending[c].document, pending[c].entity),
                 Modified(pending[c].document,
                          changed(repo, pending[c].document, pending[c].entity)))
  /\ Done("save", pending[c].entity, pending[c].entity.id, NoFilters, NoOptions,
          translated(pending[c].entity,
                     updated(repo, db, pending[c].document, pending[c].entity, NoOptions)))
  /\ pending' = [pending EXCEPT ![c] = NoFlight]
  /\ UNCHANGED <<repo, cap, txn>>

\* a document written to the collection by another client of the store,
\* with no repository in between (the unique index on isbn still applies)
RawInsert(t, title, isbn) ==
  /\ Ready
  /\ Len(db.main) < cap /\ db.nid <= MaxId
  /\ \A i \in 1..Len(db.main) : db.main[i].isbn # isbn
  /\ ~KeyLocked(db, IdOf(db.nid), isbn)
  /\ db' = [db EXCEPT !.main = Append(@, Doc(IdOf(db.nid), t, title, isbn, "false", 0)),
                      !.nid = @ + 1]
  /\ last' = Last("rawInsert", NoEntity, IdOf(db.nid), NoFilters, NoOptions, OkEmpty(<<>>))
  /\ UNCHANGED <<repo, cap, txn, pending>>

FindById(id, session) ==
  /\ Ready
  /\ Issued(session)
  /\ Done("findById", NoEntity, id, NoFilters, WithSession(session),
          findById(repo, db, id, WithSession(session)))
  /\ UNCHANGED <<repo, cap, txn, pending>>

FindOne(filters, optionsFilters, session) ==
  /\ Ready
  /\ Issued(session)
  /\ LET options == Options(session, optionsFilters, NoPageable, Undefined)
     IN Done("findOne", NoEntity, Omit, filters, options,
             findOne(repo, db, filters, options))
  /\ UNCHANGED <<repo, cap, txn, pending>>

FindAll(filters, pageable, sortBy, session) ==
  /\ Ready
  /\ Issued(session)
  /\ LET options == Options(session, filters, pageable, sortBy)
     IN Done("findAll", NoEntity, Omit, NoFilters, options,
             findAll(repo, db, options))
  /\ UNCHANGED <<repo, cap, txn, pending>>

\* an operation of a unit of work has ended: an error of the store under
\* the session is thrown out of the unit of work, which aborts the
\* transaction
Answered(session, op, entity, id, r) ==
  IF session # NoSession /\ r.out.kind # "ok"
  THEN /\ txn' = [txn EXCEPT ![session].status = "aborted", ![session].flight = NoFlight]
       /\ Done("runInTransaction", entity, id, NoFilters, WithSession(session),
               [db |-> abortTransaction(r.db, session), out |-> r.out])
  ELSE /\ txn' = IF session = NoSession THEN txn
                 ELSE [txn EXCEPT ![session].flight = NoFlight]
       /\ Done(op, entity, id, NoFilters, WithSession(session), r)

\* deleteById: the example's book repository has its own.  The call without
\* session that matches a stored document writes it, and so waits for an
\* open transaction that has written the document
DeleteById(id, session) ==
  /\ Ready
  /\ Issued(session)
  /\ (session = NoSession /\ id \in IdsOf(db.main)) => ~RowLocked(db, id)
  /\ Answered(session, "deleteById", NoEntity, id,
              IF repo.name = "example" THEN softDeleteById(db, id, WithSession(session))
              ELSE deleteById(db, id, WithSession(session)))
  /\ UNCHANGED <<repo, cap, pending>>

\* deleteAll exists on the example's book repository only; it ends here
\* when its guard or its findAll fails, else its unit of work is open with
\* the books to save (the transaction reads from the snapshot taken at its
\* first read, so the start and the find are one step)
DeleteAllBegun(session, options, r) ==
  IF r.out.kind # "ok"
  THEN /\ Done("deleteAll", NoEntity, Omit, NoFilters, options, r)
       /\ txn' = txn
  ELSE /\ db' = r.db
       /\ txn' = [txn EXCEPT
                    ![session] = [status |-> "active", pre |-> db.main, saves |-> 0,
                                  op |-> "deleteAll", options |-> options,
                                  todo |-> r.out.vals,
                                  out |-> [r.out EXCEPT !.vals = <<>>],
                                  flight |-> NoFlight]]
       /\ last' = last

\* the guard on the filters comes before runInTransaction and is tried in
\* every state; the transaction is started beside the ones that are open,
\* as long as the pool has a session left for it
DeleteAll(filters) ==
  /\ Ready
  /\ repo.name = "example"
  /\ filters.js # Null => Started # NoSession
  /\ DeleteAllBegun(Started, Options(NoSession, filters, NoPageable, Undefined),
                    deleteAll(repo, db, Started,
                              Options(NoSession, filters, NoPageable, Undefined)))
  /\ UNCHANGED <<repo, cap, pending>>

\* ... the save of a book has ended: the next one follows; a save that
\* fails aborts the transaction and is the failure of deleteAll ...
DeleteAllSaved(session, acc) ==
  IF acc.out.kind = "ok"
  THEN /\ db' = acc.db
       /\ txn' = [txn EXCEPT ![session].saves = @ + 1, ![session].todo = Tail(@),
                             ![session].out = acc.out, ![session].flight = NoFlight]
       /\ last' = last
  ELSE /\ txn' = [txn EXCEPT ![session].status = "aborted", ![session].flight = NoFlight]
       /\ Done("deleteAll", NoEntity, Omit, NoFilters, txn[session].options,
               settled(session, acc))

\* ... the next book is saved under the session of the transaction.  A book
\* found has the id of a document the session sees, so its save is an
\* update: this is the save up to the answer of update's findById (a save
\* that calls the store once would end here) ...
DeleteAllSave(session) ==
  /\ Ready
  /\ txn[session].status = "active" /\ txn[session].op = "deleteAll"
  /\ txn[session].todo # <<>> /\ txn[session].flight.stage = "idle"
  /\ IF InTwoSteps(txn[session].todo[1], session)
     THEN /\ txn' = [txn EXCEPT
                       ![session].flight =
                          [stage |-> "read", entity |-> txn[session].todo[1],
                           document |-> DocOf(db.tx[session], txn[session].todo[1].id)]]
          /\ UNCHANGED <<db, last>>
     ELSE DeleteAllSaved(session,
                         collected([db |-> db, out |-> txn[session].out],
                                   save(repo, db, txn[session].todo[1], WithSession(session))))
  /\ UNCHANGED <<repo, cap, pending>>

\* ... and from there on: the document read is changed and saved under the
\* session; the steps of other callers fall between the two ...
DeleteAllWrite(session) ==
  /\ Ready
  /\ txn[session].status = "active" /\ txn[session].op = "deleteAll"
  /\ txn[session].flight.stage = "read"
  /\ DeleteAllSaved(session,
                    collected([db |-> db, out |-> txn[session].out],
                              saveAll(repo, db, txn[session].todo,
                                      txn[session].flight.document, WithSession(session))))
  /\ UNCHANGED <<repo, cap, pending>>

\* ... and when none is left the transaction is committed and deleteAll
\* answers the number of books written
DeleteAllCommit(session) ==
  /\ Ready
  /\ txn[session].status = "active" /\ txn[session].op = "deleteAll"
  /\ txn[session].todo = <<>> /\ txn[session].flight.stage = "idle"
  /\ Done("deleteAll", NoEntity, Omit, NoFilters, txn[session].options,
          settled(session, [db |-> db, out |-> txn[session].out]))
  /\ txn' = [txn EXCEPT ![session].status = "committed"]
  /\ UNCHANGED <<repo, cap, pending>>

\* runInTransaction(unitOfWork) called by a client: the session is started ...
TxBegin ==
  /\ Ready
  /\ Started # NoSession
  /\ db' = startTransaction(db, Started)
  /\ txn' = [txn EXCEPT
               ![Started] = [IdleTxn EXCEPT !.status = "active", !.pre = db.main,
                                            !.op = "runInTransaction"]]
  /\ last' = Last("startTransaction", NoEntity, Omit, NoFilters,
                  WithSession(Started), OkEmpty(<<Call("startTransaction", Started)>>))
  /\ UNCHANGED <<repo, cap, pending>>

\* ... a save of the unit of work has ended; a save that fails throws out
\* of the unit of work, which aborts the transaction ...
TxSaved(session, entity, r) ==
  IF r.out.kind = "ok"
  THEN /\ txn' = [txn EXCEPT ![session].saves = @ + 1, ![session].flight = NoFlight]
       /\ Done("save", entity, entity.id, NoFilters, WithSession(session), r)
  ELSE Answered(session, "save", entity, entity.id, r)

\* ... the unit of work saves with the session an entity whose save calls
\* the store once or not at all ...
TxSave(session, entity) ==
  /\ Ready
  /\ Running(session)
  /\ txn[session].saves < MaxTxSaves
  /\ ~InTwoSteps(entity, session)
  /\ Inserts(entity, session) => WithinBounds(db.tx[session], db.nid, entity)
  /\ TxSaved(session, entity, save(repo, db, entity, WithSession(session)))
  /\ UNCHANGED <<repo, cap, pending>>

\* ... or one with the id of a document the session sees, up to the answer
\* of update's findById under the session ...
TxUpdateRead(session, entity) ==
  /\ Ready
  /\ Running(session)
  /\ txn[session].saves < MaxTxSaves
  /\ InTwoSteps(entity, session)
  /\ WithinBounds(db.tx[session], db.nid, entity)
  /\ txn' = [txn EXCEPT
               ![session].flight = [stage |-> "read", entity |-> entity,
                                    document |-> DocOf(db.tx[session], entity.id)]]
  /\ UNCHANGED <<repo, cap, db, last, pending>>

\* ... and from there on, the steps of other callers in between: the
\* document read is changed, saved under the session and instantiated ...
TxUpdateWrite(session) ==
  /\ Ready
  /\ txn[session].status = "active" /\ txn[session].op = "runInTransaction"
  /\ txn[session].flight.stage = "read"
  /\ TxSaved(session, txn[session].flight.entity,
             translated(txn[session].flight.entity,
                        updated(repo, db, txn[session].flight.document,
                                txn[session].flight.entity, WithSession(session))))
  /\ UNCHANGED <<repo, cap, pending>>

\* ... or the unit of work itself throws, which aborts the transaction and
\* hands the error to the caller ...
TxThrow(session) ==
  /\ Ready
  /\ Running(session)
  /\ db' = abortTransaction(db, session)
  /\ txn' = [txn EXCEPT ![session].status = "aborted"]
  /\ last' = Last("runInTransaction", NoEntity, Omit, NoFilters, WithSession(session),
                  Res("Error", "unit of work failed", "", "",
                      <<Call("abortTransaction", session)>>))
  /\ UNCHANGED <<repo, cap, pending>>

\* ... or it completes, which commits
TxCommit(session) ==
  /\ Ready
  /\ Running(session)
  /\ db' = commitTransaction(db, session)
  /\ txn' = [txn EXCEPT ![session].status = "committed"]
  /\ last' = Last("runInTransaction", NoEntity, Omit, NoFilters, WithSession(session),
                  OkEmpty(<<Call("commitTransaction", session)>>))
  /\ UNCHANGED <<repo, cap, pending>>

\* ------------------------------------------------------- specifications
\* every operation of the repository, issued by concurrent callers: the
\* updates of several callers may be in flight at once
Next ==
  \/ \E entity \in ConcurrentNew(repo) \cup ConcurrentWithId(repo) \cup {NoEntity, NullEntity} :
       Save(entity)
  \/ \E c \in Callers, entity \in ConcurrentWithId(repo) : UpdateRead(c, entity)
  \/ \E c \in Callers : UpdateWrite(c)
  \/ RawInsert(Omit, "a", Undefined)
  \/ \E id \in IdInputs : FindById(id, NoSession)
  \/ \E filters \in {NoFilters, NullFilters, Filters("title", "a")},
        optionsFilters \in {NoFilters, Filters("title", "b")} :
       FindOne(filters, optionsFilters, NoSession)
  \/ \E pageable \in {NoPageable, Pageable(-1, 1), Pageable(1, -1), Pageable(-1, 0),
                      Pageable(0, -1), Pageable(1, 1)} :
       FindAll(NoFilters, pageable, Undefined, NoSession)
  \/ \E id \in IdInputs : DeleteById(id, NoSession)
  \/ Return

Spec == Init /\ [][Next]_vars

\* every operation of the repository on more shapes of entity, with the
\* update of one caller in flight at a time and the operations of the other
\* callers in between
NextSolo ==
  \/ \E entity \in NewEntities(repo) \cup EntitiesWithId(repo) \cup {NoEntity, NullEntity} :
       Save(entity)
  \/ \E entity \in EntitiesWithId(repo) : UpdateRead(1, entity)
  \/ UpdateWrite(1)
  \/ RawInsert(Omit, "a", Undefined)
  \/ \E id \in IdInputs : FindById(id, NoSession)
  \/ \E filters \in {NoFilters, NullFilters, Filters("title", "a")} :
       FindOne(filters, NoFilters, NoSession)
  \/ FindOne(NoFilters, Filters("title", "b"), NoSession)
  \/ \E pageable \in {NoPageable, Pageable(-1, 1), Pageable(1, -1)} :
       FindAll(NoFilters, pageable, Undefined, NoSession)
  \/ \E id \in IdInputs : DeleteById(id, NoSession)
  \/ Return

SpecSolo == Init /\ [][NextSolo]_vars

\* units of work of clients side by side, each under the session of its own
\* transaction, and the callers without session next to them
NextTx ==
  \/ \E entity \in OutsideEntities(repo) \cup InvalidEntities : Save(entity)
  \/ \E entity \in OutsideEntities(repo) : UpdateRead(1, entity)
  \/ UpdateWrite(1)
  \/ \E id \in {IdOf(1), ""} : FindById(id, NoSession)
  \/ FindOne(Filters("title", "a"), NoFilters, NoSession)
  \/ FindAll(NoFilters, NoPageable, Undefined, NoSession)
  \/ \E session \in Sessions : FindById(IdOf(1), session)
  \/ \E session \in Sessions : FindOne(Filters("title", "a"), NoFilters, session)
  \/ \E session \in Sessions : FindAll(NoFilters, NoPageable, Undefined, session)
  \/ \E id \in {IdOf(1), Null} : DeleteById(id, NoSession)
  \/ \E session \in Sessions : DeleteById(IdOf(1), session)
  \/ TxBegin
  \/ \E session \in Sessions, entity \in TxEntities(repo) : TxSave(session, entity)
  \/ \E session \in Sessions, entity \in TxEntities(repo) : TxUpdateRead(session, entity)
  \/ \E session \in Sessions : TxUpdateWrite(session)
  \/ \E session \in Sessions : TxThrow(session)
  \/ \E session \in Sessions : TxCommit(session)
  \/ Return

SpecTx == InitTx /\ [][NextTx]_vars

\* bulk deletions side by side, each in the transaction it starts, and the
\* callers without session next to them
NextBulk ==
  \/ \E entity \in BulkEntities(repo) \cup InvalidEntities : Save(entity)
  \/ \E entity \in BulkEntities(repo) : UpdateRead(1, entity)
  \/ UpdateWrite(1)
  \/ FindById("", NoSession)
  \/ FindOne(NoFilters, NoFilters, NoSession)
  \/ \E pageable \in {NoPageable, Pageable(-1, 1)} :
       FindAll(NoFilters, pageable, Undefined, NoSession)
  \/ \E id \in {IdOf(1), Null} : DeleteById(id, NoSession)
  \/ RawInsert(Omit, "a", Undefined)
  \/ \E filters \in {NoFilters, NullFilters, Filters("title", "a")} : DeleteAll(filters)
  \/ \E session \in Sessions : DeleteAllSave(session)
  \/ \E session \in Sessions : DeleteAllWrite(session)
  \/ \E session \in Sessions : DeleteAllCommit(session)
  \/ Return

SpecBulk == InitTx /\ [][NextBulk]_vars

\* units of work of clients and bulk deletions side by side
NextUnits ==
  \/ \E entity \in OutsideEntities(repo) : Save(entity)
  \/ \E entity \in OutsideEntities(repo) : UpdateRead(1, entity)
  \/ UpdateWrite(1)
  \/ FindById(IdOf(1), NoSession)
  \/ \E session \in Sessions : FindById(IdOf(1), session)
  \/ \E session \in Sessions : FindOne(Filters("title", "a"), NoFilters, session)
  \/ \E session \in Sessions : FindAll(NoFilters, NoPageable, Undefined, session)
  \/ DeleteById(IdOf(1), NoSession)
  \/ \E session \in Sessions : DeleteById(IdOf(1), session)
  \/ \E filters \in {NoFilters, NullFilters, Filters("title", "a")} : DeleteAll(filters)
  \/ \E session \in Sessions : DeleteAllSave(session)
  \/ \E session \in Sessions : DeleteAllWrite(session)
  \/ \E session \in Sessions : DeleteAllCommit(session)
  \/ TxBegin
  \/ \E session \in Sessions, entity \in UnitEntities : TxSave(session, entity)
  \/ \E session \in Sessions, entity \in UnitEntities : TxUpdateRead(session, entity)
  \/ \E session \in Sessions : TxUpdateWrite(session)
  \/ \E session \in Sessions : TxCommit(session)
  \/ Return

SpecUnits == InitTx /\ [][NextUnits]_vars

\* queries with filters, sort and paging over a collection filled before
NextFind ==
  \/ \E entity \in FindEntities(repo) : Save(entity)
  \/ \E t \in {Omit, UnknownKey} : RawInsert(t, "a", Undefined)
  \/ \E filters \in FiltersInputs, pageable \in PageableInputs, sortBy \in SortInputs :
       FindAll(filters, pageable, sortBy, NoSession)
  \/ Return

SpecFind == InitWith(TypeMaps, MaxFindDocs) /\ [][NextFind]_vars

\* construction with every type map tried, and the repositories it yields
\* at work on the classes of the domain
NextNew ==
  \/ \E entity \in TypeEntities : Save(entity)
  \/ \E t \in {Omit, "PaperBook", UnknownKey, ""}, isbn \in Isbns : RawInsert(t, "a", isbn)
  \/ \E id \in {IdOf(1), IdOf(2)} : FindById(id, NoSession)
  \/ \E isbn \in Isbns : FindOne(Filters("isbn", isbn), NoFilters, NoSession)
  \/ FindAll(NoFilters, NoPageable, Undefined, NoSession)
  \/ Return

SpecNew == InitNew /\ [][NextNew]_vars

\* saves of every shape; the read and the write of an update are two steps
NextSave ==
  \/ \E entity \in SaveEntities(repo) : Save(entity)
  \/ \E entity \in SaveEntities(repo) : UpdateRead(1, entity)
  \/ UpdateWrite(1)
  \/ \E t \in {Omit, UnknownKey} : RawInsert(t, "a", "n2")
  \/ Return

SpecSave == Init /\ [][NextSave]_vars

\* saves of concurrent callers: the read and the write of an update are
\* two steps, and steps of other callers come in between
NextRace ==
  \/ \E entity \in RaceEntities(repo) : Save(entity)
  \/ \E c \in Callers, entity \in RaceEntities(repo) : UpdateRead(c, entity)
  \/ \E c \in Callers : UpdateWrite(c)
  \/ DeleteById(IdOf(1), NoSession)
  \/ Return

SpecRace == Init /\ [][NextRace]_vars

\* ================================================================ claims
\* helpers of the properties, stated on the collection directly
Without(docs, id) == SelectSeq(docs, LAMBDA d : d.id # id)

\* a standalone save of an object was just carried out
SaveStep == last.op = "none" /\ last'.op = "save" /\ last'.entity.js = "object"

\* ... of a new entity (no id) whose class the repository's type map has
InsertStep ==
  /\ SaveStep
  /\ last'.entity.id \in {Omit, Undefined, Null, ""}
  /\ last'.entity.cls \in {repo.Default.type}
                           \cup {repo.typeNames[i] : i \in 1..Len(repo.typeNames)}

\* the write of the update a caller had in flight was just carried out
WriteStep(c) == pending[c].stage = "read" /\ pending'[c].stage = "idle"

\* the update completed here, if any, found the document as its findById
\* had read it: no other write of that document fell in between
Undisturbed ==
  \A c \in Callers :
    WriteStep(c) =>
      /\ pending[c].entity.id \in IdsOf(db.main)
      /\ DocOf(db.main, pending[c].entity.id) = pending[c].document

\* ... of an entity or partial that carries an id, in a sequential history
\* of the document: the save that calls the store once, or the write of an
\* update that followed its read undisturbed
UpdateStep ==
  SaveStep /\ last'.entity.id \notin {Omit, Undefined, Null, ""} /\ Undisturbed

\* the store takes the entity's data: isbn is there and no document has it
Accepted(docs, entity) ==
  /\ entity.isbn \notin {Omit, Undefined}
  /\ \A i \in 1..Len(docs) : docs[i].isbn # entity.isbn

\* what findById answers for the id in the state reached
Found(id) == findById(repo, db', id, NoOptions).out

\* C1 (as stated): every save of a new entity of a registered class
\* succeeds, its result carries an id no document had before, and findById
\* of that id then returns an entity equal to the result.
C1_EveryInsertSucceeds ==
  [][InsertStep =>
       /\ last'.out.kind = "ok"
       /\ last'.out.val.id \notin IdsOf(db.main)
       /\ Found(last'.out.val.id).present
       /\ Found(last'.out.val.id).val = last'.out.val]_vars

\* C1 (amended): a save of a new entity of a registered class fails with
\* Validation when the store rejects its data, else fails with
\* InvalidArgument when it carries a discriminator key of its own that the
\* type map does not have, and else succeeds: the result carries an id no
\* document had before and findById of that id returns an entity equal to
\* the result.
C1_InsertRoundTrip ==
  [][InsertStep =>
       IF ~Accepted(db.main, last'.entity)
       THEN last'.out.kind = "ValidationException" /\ db' = db
       ELSE IF last'.entity.t = UnknownKey
       THEN last'.out.kind = "IllegalArgumentException"
       ELSE /\ last'.out.kind = "ok"
            /\ last'.out.val.id \notin {Omit, Undefined, Null, ""}
            /\ last'.out.val.id \notin IdsOf(db.main)
            /\ last'.out.val.cls = last'.entity.cls
            /\ last'.out.val.title = last'.entity.title
            /\ last'.out.val.isbn = last'.entity.isbn
            /\ Found(last'.out.val.id).kind = "ok"
            /\ Found(last'.out.val.id).present
            /\ Found(last'.out.val.id).val = last'.out.val]_vars

\* a subtype entity was inserted next to another document and came back
C1_Witness ==
  /\ last.op = "save" /\ last.out.kind = "ok"
  /\ last.entity.id = Undefined /\ last.entity.cls = repo.typeNames[1]
  /\ Len(db.main) = 2 /\ db.main[2].id = last.out.val.id

\* C2: a save of an entity or partial whose id is non-empty and matches no
\* stored document fails with InvalidArgument, the message names that id,
\* no document is created and every stored document is unchanged.
C2_UnknownIdRejected ==
  [][(UpdateStep /\ last'.entity.id \notin IdsOf(db.main)) =>
       /\ last'.out.kind = "IllegalArgumentException"
       /\ last'.out.msg = "There is no document matching the given ID"
       /\ last'.out.names = last'.entity.id
       /\ db' = db]_vars

\* C3: for an auditable entity the stored version is 0 right after the
\* insert, after each successful update it is the version stored before
\* plus 1 whatever the partial changes, and a failed update leaves the
\* stored version as it was.
C3_VersionBookkeeping ==
  [][(SaveStep /\ repo.auditable) =>
       /\ (InsertStep /\ last'.out.kind = "ok") =>
            DocOf(db'.main, last'.out.val.id).v = 0
       /\ (UpdateStep /\ last'.entity.id \in IdsOf(db.main)) =>
            /\ last'.entity.id \in IdsOf(db'.main)
            /\ DocOf(db'.main, last'.entity.id).v =
                 DocOf(db.main, last'.entity.id).v
                 + (IF last'.out.kind = "ok" THEN 1 ELSE 0)]_vars

\* C4: deleteById of the id of a stored document returns true, removes
\* exactly that document and findById of it is then empty; with a non-empty
\* id that matches no document it returns false and changes nothing.
C4_DeleteById ==
  [][(last.op = "none" /\ last'.op = "deleteById"
        /\ last'.id \notin {Undefined, Null, ""}) =>
       /\ last'.out.kind = "ok"
       /\ IF last'.id \in IdsOf(db.main)
          THEN /\ last'.out.flag = TRUE
               /\ db'.main = Without(db.main, last'.id)
               /\ Len(db'.main) = Len(db.main) - 1
               /\ Found(last'.id).kind = "ok" /\ ~Found(last'.id).present
          ELSE /\ last'.out.flag = FALSE
               /\ db' = db]_vars

\* does the document satisfy the filters (none given: every document does)
Selected(document, filters) ==
  (filters.js = "object" /\ filters.field # "") =>
     document[filters.field] = filters.value

\* a step of the open unit of work: a read or a write of its next save,
\* its abort or its commit
\* (the steps other callers take meanwhile leave its record alone)
UnitStep(session) == txn[session].status = "active" /\ txn'[session] # txn[session]

\* C5: a unit of work run through runInTransaction that saves with the
\* session and then fails has written nothing to the committed collection:
\* none of its saves nor its abort changes it, so what is there after the
\* failure is what was there before the unit of work started and what other
\* callers wrote meanwhile; no read after the failure sees a document the
\* unit of work wrote, and the error it threw is what the caller gets.
C5_AbortedUnitOfWork ==
  [][\A session \in Sessions :
       (UnitStep(session) /\ txn[session].op = "runInTransaction") =>
         /\ txn'[session].status = "active" => db'.main = db.main
         /\ txn'[session].status = "aborted" =>
              /\ db'.main = db.main
              /\ db'.tx[session] = <<>>
              /\ TxRemoved(db, session) \subseteq IdsOf(db'.main)
              /\ \A e \in TxChanged(db, session) :
                   LET read == findById(repo, db', e.id, NoOptions).out
                   IN IF e.id \in IdsOf(db.snap[session])
                      THEN /\ e.id \in IdsOf(db'.main)
                           /\ DocOf(db'.main, e.id) = DocOf(db.snap[session], e.id)
                      ELSE /\ e.id \notin IdsOf(db'.main)
                           /\ read.kind = "ok" /\ ~read.present
              /\ last'.op = "runInTransaction" /\ last'.out.kind # "ok"
              /\ (last'.entity.js # "object" /\ last'.id = Omit) =>
                   last'.out.kind = "Error" /\ last'.out.msg = "unit of work failed"]_vars

\* a unit of work inserted one document, updated another and then threw
C5_Witness ==
  \E session \in Sessions :
    /\ txn[session].status = "aborted" /\ txn[session].saves = 2
    /\ last.op = "runInTransaction" /\ last.out.kind = "Error"
    /\ Len(txn[session].pre) = 1 /\ txn[session].pre[1].title = "a" /\ db.nid = 3

\* a deleteAll was just carried out
DeleteAllStep == last.op = "none" /\ last'.op = "deleteAll"

\* C6: deleteAll with filters explicitly null fails with InvalidArgument
\* before a transaction is started or a document is read or written, so the
\* collection is unchanged; filters left undefined pass this guard.
C6_NullFiltersRejected ==
  [][DeleteAllStep =>
       IF last'.options.filters.js = Null
       THEN /\ last'.out.kind = "IllegalArgumentException"
            /\ last'.out.msg = "Null filters are disallowed"
            /\ last'.out.calls = <<>>
            /\ db' = db
       ELSE /\ last'.out.msg # "Null filters are disallowed"
            /\ last'.out.calls # <<>>
            /\ last'.out.calls[1].fn = "startTransaction"]_vars

\* null filters were turned away with two documents stored, while every
\* session had a unit of work open that had written one of them
C6_Witness ==
  /\ last.op = "deleteAll" /\ last.options.filters.js = Null
  /\ last.out.kind = "IllegalArgumentException" /\ Len(db.main) = 2
  /\ \A i \in 1..2 : db.main[i].isDeleted = "false"
  /\ \A session \in Sessions :
       txn[session].status = "active" /\ TxChanged(db, session) # {}

\* C7: deleteAll with filters that are not null is all or nothing, whatever
\* other transactions are open beside its own: when it succeeds every
\* document its findAll found to match the filters and not yet flagged has
\* its soft-delete flag set and is otherwise as it was found, the count
\* returned is the number of documents found to match, none is removed and
\* the others are unchanged (a document found already flagged is not
\* written); it fails when a matching document cannot be written, and when
\* it fails no document is changed: no step of deleteAll before the commit
\* writes to the committed collection.
C7_DeleteAllAtomic ==
  [][/\ \A session \in Sessions :
          (UnitStep(session) /\ txn[session].op = "deleteAll"
             /\ txn'[session].status # "committed") =>
            db'.main = db.main
     /\ (DeleteAllStep /\ last'.options.filters.js # Null
           /\ \A session \in Sessions : ~UnitStep(session)) =>
          last'.out.kind # "ok" /\ db' = db
     /\ \A session \in Sessions :
          (DeleteAllStep /\ UnitStep(session)) =>
            LET filters == last'.options.filters
                snap == db.snap[session]
                matching == {snap[i].id :
                               i \in {j \in 1..Len(snap) : Selected(snap[j], filters)}}
            IN /\ db'.tx[session] = <<>>
               /\ (\E id \in matching : DocOf(snap, id).isbn = Undefined) =>
                    last'.out.kind # "ok"
               /\ IF last'.out.kind = "ok"
                  THEN /\ last'.out.n = Cardinality(matching)
                       /\ Len(db'.main) = Len(db.main)
                       /\ \A i \in 1..Len(db.main) :
                            db'.main[i] =
                              IF /\ db.main[i].id \in matching
                                 /\ DocOf(snap, db.main[i].id).isDeleted # "true"
                              THEN [DocOf(snap, db.main[i].id) EXCEPT !.isDeleted = "true"]
                              ELSE db.main[i]
                       /\ {id \in matching : DocOf(snap, id).isDeleted # "true"}
                            \subseteq IdsOf(db.main)
                  ELSE db'.main = db.main]_vars

\* the first matching book was written, the second was held by another
\* deleteAll that is still open, and the batch was rolled back
C7_Witness ==
  /\ last.op = "deleteAll" /\ last.out.kind = "StoreError"
  /\ last.out.msg = "WriteConflict"
  /\ Len(last.out.calls) = 7
  /\ Len(db.main) = 2 /\ db.main[1].isDeleted = "false"
  /\ \E session \in Sessions :
       txn[session].status = "active" /\ txn[session].op = "deleteAll"

\* the documents the filters match, in the order of the sort
ExpectedAll(docs, filters, sortBy) ==
  LET matched == SelectSeq(docs, LAMBDA d : Selected(d, filters))
      set == {matched[i] : i \in 1..Len(matched)}
      Before(e, d) == IF sortBy = "isbn" THEN Rank(e.isbn) < Rank(d.isbn)
                      ELSE Rank(e.isbn) > Rank(d.isbn)
  IN IF sortBy = Undefined THEN matched
     ELSE [k \in 1..Len(matched) |->
             CHOOSE d \in set : Cardinality({e \in set : Before(e, d)}) = k - 1]

Hydratable(docs) == \A i \in 1..Len(docs) : instantiateFrom(repo, docs[i]).ok

Hydrated(docs) == [i \in 1..Len(docs) |-> instantiateFrom(repo, docs[i]).val]

Smaller(a, b) == IF a < b THEN a ELSE b

\* the findAll just carried out, and what it was asked
FindAllDone == last.op = "findAll"
AskedPage == last.options.pageable
AskedAll == ExpectedAll(db.main, last.options.filters, last.options.sortBy)
AskedAllNext == ExpectedAll(db.main, last'.options.filters, last'.options.sortBy)

\* C8: findAll with pageable {pageNumber: p, offset: s}, p >= 1 and s >= 1,
\* returns the elements at positions (p-1)*s+1 .. p*s of the filtered and
\* sorted sequence, in that order, fewer or none when the sequence is
\* shorter: paging comes after filter and sort, and a page beyond the end
\* is an empty sequence, not an error (documents of the page that have no
\* registered constructor make findAll fail instead).
C8_PageOfSorted ==
  (FindAllDone /\ AskedPage.js = "object"
     /\ AskedPage.pageNumber >= 1 /\ AskedPage.offset >= 1) =>
    LET p == AskedPage.pageNumber
        s == AskedPage.offset
        page == SubSeq(AskedAll, (p - 1) * s + 1, Smaller(p * s, Len(AskedAll)))
    IN Hydratable(page) =>
         /\ last.out.kind = "ok"
         /\ last.out.vals = Hydrated(page)

\* page 2 of size 1 over three documents sorted by descending isbn is the
\* document that is second in that order, not second in storage order
C8_Witness ==
  /\ FindAllDone /\ AskedPage = Pageable(2, 1) /\ last.options.sortBy = "-isbn"
  /\ last.options.filters = NoFilters
  /\ Len(db.main) = 3 /\ last.out.kind = "ok" /\ Len(last.out.vals) = 1
  /\ last.out.vals[1].id # db.main[2].id

\* C9 (as stated): findAll with pageNumber <= 0 or offset <= 0 is no
\* paging: it returns every entity the filters match, in sorted order.
C9_NonPositiveIsNoPaging ==
  (FindAllDone /\ AskedPage.js = "object"
     /\ (AskedPage.pageNumber <= 0 \/ AskedPage.offset <= 0)) =>
    (Hydratable(AskedAll) =>
       last.out.kind = "ok" /\ last.out.vals = Hydrated(AskedAll))

\* C9 (amended): findAll with offset 0 and pageNumber >= 0 is no paging: it
\* returns every entity the filters match, in sorted order; with pageNumber
\* 0 and offset s >= 1 nothing is skipped but only the first s are
\* returned; a negative pageNumber or offset is rejected with
\* InvalidArgument.
C9_ZeroOffsetIsNoPaging ==
  (FindAllDone /\ AskedPage.js = "object"
     /\ (AskedPage.pageNumber <= 0 \/ AskedPage.offset <= 0)) =>
    IF AskedPage.pageNumber < 0 \/ AskedPage.offset < 0
    THEN last.out.kind = "IllegalArgumentException" /\ last.out.calls = <<>>
    ELSE IF AskedPage.offset = 0
    THEN Hydratable(AskedAll) =>
           last.out.kind = "ok" /\ last.out.vals = Hydrated(AskedAll)
    ELSE LET first == SubSeq(AskedAll, 1, Smaller(AskedPage.offset, Len(AskedAll)))
         IN Hydratable(first) =>
              last.out.kind = "ok" /\ last.out.vals = Hydrated(first)

\* page 2 of size 0 over three documents returned all three
C9_Witness ==
  /\ FindAllDone /\ AskedPage = Pageable(2, 0)
  /\ last.out.kind = "ok" /\ Len(last.out.vals) = 3

\* C10: a structurally invalid request is rejected with InvalidArgument and
\* leaves the collection unchanged: findById and deleteById with an empty,
\* null or undefined id, findOne with neither the positional filters nor
\* options.filters, findAll with a negative pageNumber or offset, save with
\* a null or undefined entity.
C10_InvalidRequestRejected ==
  [][(/\ last.op = "none"
      /\ \/ last'.op \in {"findById", "deleteById"} /\ last'.id \in {"", Null, Undefined}
         \/ /\ last'.op = "findOne"
            /\ last'.filters.js # "object" /\ last'.options.filters.js # "object"
         \/ /\ last'.op = "findAll"
            /\ \/ last'.options.pageable.pageNumber < 0
               \/ last'.options.pageable.offset < 0
         \/ last'.op = "save" /\ last'.entity.js \in {Null, Undefined}) =>
       /\ last'.out.kind = "IllegalArgumentException"
       /\ last'.out.calls = <<>>
       /\ db' = db]_vars

\* an empty id was turned away by deleteById with two documents stored
C10_Witness ==
  /\ last.op = "deleteById" /\ last.id = ""
  /\ last.out.kind = "IllegalArgumentException" /\ Len(db.main) = 2

\* the keys of the repository's type map other than Default
KeysOf(map) == {map.typeNames[i] : i \in 1..Len(map.typeNames)}

\* a standalone save of a new entity (no id) was just carried out
NewStep == SaveStep /\ last'.entity.id \in {Omit, Undefined, Null, ""}

\* C11: save of an entity without id whose class name is neither the name
\* of the supertype constructor nor a key of the type map fails with
\* InvalidArgument before any store call and stores nothing; an instance of
\* the base class is such an entity when the Default entry has no
\* constructor.
C11_UnregisteredTypeRejected ==
  [][(/\ NewStep
      /\ (repo.Default.type = Undefined \/ last'.entity.cls # repo.Default.type)
      /\ last'.entity.cls \notin KeysOf(repo)) =>
       /\ last'.out.kind = "IllegalArgumentException"
       /\ last'.out.names = last'.entity.cls
       /\ last'.out.calls = <<>>
       /\ db' = db]_vars

\* a repository without supertype constructor, holding a document, turned
\* an instance of the base class away
C11_Witness ==
  /\ last.op = "save" /\ last.entity.cls = "Book" /\ last.entity.id = Undefined
  /\ repo.Default.type = Undefined
  /\ last.out.kind = "IllegalArgumentException" /\ last.out.names = "Book"
  /\ Len(db.main) = 1

\* the document carries a discriminator key the type map does not have
Unregistered(document) == ~Falsy(document.t) /\ document.t \notin KeysOf(repo)

\* the documents a finder that was just carried out had to instantiate
Instantiated ==
  CASE last'.op = "findById" ->
         {db.main[i] : i \in {j \in 1..Len(db.main) : db.main[j].id = last'.id}}
    [] last'.op = "findOne" ->
         LET used == IF last'.options.filters.js = "object" THEN last'.options.filters
                     ELSE last'.filters
             matched == SelectSeq(db.main, LAMBDA d : Selected(d, used))
         IN IF matched = <<>> THEN {} ELSE {matched[1]}
    [] last'.op = "findAll" /\ last'.options.pageable.js # "object" ->
         {AskedAllNext[i] : i \in 1..Len(AskedAllNext)}
    [] OTHER -> {}

\* C12: when a stored document carries a discriminator key the type map
\* does not have, findById, findOne and findAll that reach it, and an update
\* through save that the store accepts, fail with the
\* UndefinedConstructorException as it was thrown; only the one thrown in
\* an insert is turned into InvalidArgument.
C12_UnregisteredConstructorSurfaced ==
  [][/\ (/\ last.op = "none" /\ last'.op \in {"findById", "findOne", "findAll"}
         /\ last'.out.calls # <<>>
         /\ \E document \in Instantiated : Unregistered(document)) =>
          last'.out.kind = "UndefinedConstructorException"
     /\ (/\ UpdateStep /\ last'.entity.id \in IdsOf(db.main)
         /\ Unregistered(DocOf(db.main, last'.entity.id))
         /\ last'.out.kind # "ValidationException") =>
          last'.out.kind = "UndefinedConstructorException"
     /\ (/\ InsertStep /\ last'.entity.t = UnknownKey
         /\ last'.out.kind # "ValidationException") =>
          last'.out.kind = "IllegalArgumentException"]_vars

\* C13: in every repository that could be constructed, a stored document
\* without discriminator key is instantiated by the supertype constructor:
\* findById and findOne that reach it succeed with an instance of the
\* supertype, and findAll over such documents succeeds; none of them fails
\* with UndefinedConstructorException.
C13_NoKeyIsSupertype ==
  [][(/\ last.op = "none" /\ last'.op \in {"findById", "findOne", "findAll"}
      /\ last'.out.calls # <<>>
      /\ Instantiated # {}
      /\ \A document \in Instantiated : document.t = Omit) =>
       /\ last'.out.kind = "ok"
       /\ last'.op \in {"findById", "findOne"} =>
            /\ last'.out.present
            /\ repo.Default.type # Undefined
            /\ last'.out.val.cls = repo.Default.type
            /\ last'.out.val.id \in {document.id : document \in Instantiated}]_vars

\* C14: an entity whose class name is a key of the type map, saved as new
\* and accepted by the store, comes back equal in its fields and built by
\* the constructor it was built by, and so does findById of it, in every
\* repository, also one whose keys are not the names of the constructors
\* registered under them.
C14_SubtypeRoundTrip ==
  [][(/\ NewStep /\ last'.entity.cls \in KeysOf(repo)
      /\ last'.entity.t = Omit
      /\ Accepted(db.main, last'.entity)) =>
       /\ last'.out.kind = "ok"
       /\ last'.out.val.cls = last'.entity.cls
       /\ last'.out.val.title = last'.entity.title
       /\ last'.out.val.isbn = last'.entity.isbn
       /\ Found(last'.out.val.id).present
       /\ Found(last'.out.val.id).val = last'.out.val]_vars

\* the isbn the document has once the entity is saved: the entity's when it
\* has the property, else the stored one (none for a new document)
IsbnAfter(docs, entity) ==
  IF entity.isbn # Omit THEN entity.isbn
  ELSE IF entity.id \in IdsOf(docs) THEN DocOf(docs, entity.id).isbn
  ELSE Undefined

\* why the store rejects the data of the save, "" when it does not: the
\* isbn is required, and unique among the documents
Rejection(docs, entity) ==
  IF IsbnAfter(docs, entity) = Undefined THEN "validation failed"
  ELSE IF \E i \in 1..Len(docs) :
            docs[i].id # entity.id /\ docs[i].isbn = IsbnAfter(docs, entity)
  THEN "duplicate key error"
  ELSE ""

\* C15: when the store rejects the data of a save, of a new entity of a
\* registered class or of an entity with the id of a stored document, save
\* fails with ValidationException whose cause is the error of the store and
\* the collection is unchanged; an error of the store of another kind (the
\* id cannot be cast) reaches the caller as it was thrown.
C15_StoreRejectionIsValidation ==
  [][/\ (/\ InsertStep \/ (UpdateStep /\ last'.entity.id \in IdsOf(db.main))
         /\ Rejection(db.main, last'.entity) # "") =>
          /\ last'.out.kind = "ValidationException"
          /\ last'.out.cause = Rejection(db.main, last'.entity)
          /\ db' = db
     /\ (UpdateStep /\ last'.entity.id = MalformedId) =>
          /\ last'.out.kind = "StoreError"
          /\ last'.out.msg = "Cast to ObjectId failed"
          /\ db' = db]_vars

\* a partial with the isbn of the other stored document was rejected
C15_Witness ==
  /\ last.op = "save" /\ last.entity.id = IdOf(2) /\ last.entity.isbn = "n1"
  /\ last.out.kind = "ValidationException" /\ last.out.cause = "duplicate key error"
  /\ Len(db.main) = 2 /\ db.main[1].isbn = "n1" /\ db.main[2].id = IdOf(2)

\* the fields of a book (the version of an auditable one is kept by the
\* repository, not by the partial)
BookFields == {"title", "description", "isbn", "isDeleted"}

\* C16: a successful update through save changes exactly the fields the
\* partial has: a field the partial leaves out keeps its stored value, a
\* field it has takes the value given, also when that value is undefined;
\* the id and the discriminator key of the document stay, the entity that
\* comes back is of the class the document had, and no other document is
\* changed, added or removed.
C16_PartialUpdateFrame ==
  [][(UpdateStep /\ last'.entity.id \in IdsOf(db.main) /\ last'.out.kind = "ok") =>
       LET id == last'.entity.id
           before == DocOf(db.main, id)
           after == DocOf(db'.main, id)
       IN /\ \A field \in BookFields :
               after[field] = IF last'.entity[field] = Omit THEN before[field]
                              ELSE last'.entity[field]
          /\ after.t = before.t
          /\ last'.out.val.id = id
          /\ last'.out.val.cls = instantiateFrom(repo, before).val.cls
          /\ Len(db'.main) = Len(db.main)
          /\ \A i \in 1..Len(db.main) :
               db.main[i].id # id => db'.main[i] = db.main[i]
          /\ db'.main[FindIndex(db.main, id)].id = id]_vars

\* the constructor arguments give no name for the model: the Default entry
\* has no constructor and the options have no (or an empty) modelName
Nameless(map) == map.Default.type = Undefined /\ map.modelName \in {Undefined, ""}

\* C17: the constructor of a repository throws IllegalArgumentException
\* when the type map has no Default entry, and when the Default entry has
\* no constructor and the options give no model name; with a constructor or
\* a model name it succeeds.  The failure is that of the constructor: no
\* operation is ever carried out on such a repository.
C17_ConstructionFailsEarly ==
  /\ last.op = "new" =>
       /\ last.out.kind = IF ~repo.hasDefault \/ Nameless(repo)
                          THEN "IllegalArgumentException" ELSE "ok"
       /\ last.out.calls = <<>>
  /\ (~repo.hasDefault \/ Nameless(repo)) =>
       last.op \in {"new", "none"} /\ db.main = <<>>

\* the repository without base class of the tests, constructed with no
\* model name in its options, was turned away
C17_Witness ==
  /\ last.op = "new" /\ repo = WithoutBaseClassTypeMap
  /\ last.out.kind = "IllegalArgumentException"
  /\ last.out.msg = "Either a base class must be provided or the model name must be specified in the options."

\* C18: the version of an auditable document is not the caller's to set:
\* after every successful insert the stored version is 0 and after every
\* successful update it is the version stored before plus 1, whatever
\* version the entity or partial given to save carries.
C18_VersionNotCallerSet ==
  [][(SaveStep /\ repo.auditable /\ last'.out.kind = "ok") =>
       /\ InsertStep => DocOf(db'.main, last'.out.val.id).v = 0
       /\ UpdateStep =>
            DocOf(db'.main, last'.entity.id).v = DocOf(db.main, last'.entity.id).v + 1]_vars

\* a public operation was just carried out outside a unit of work
PublicStep ==
  /\ last.op = "none"
  /\ last'.op \in {"findById", "findOne", "findAll", "save", "deleteById", "deleteAll"}
  /\ last'.options.session = NoSession

\* the arguments of the operation just carried out fail one of its guards
GuardFails ==
  \/ last'.op \in {"findById", "deleteById"} /\ last'.id \in {"", Null, Undefined}
  \/ /\ last'.op = "findOne"
     /\ last'.filters.js # "object" /\ last'.options.filters.js # "object"
  \/ /\ last'.op = "findAll"
     /\ last'.options.pageable.pageNumber < 0 \/ last'.options.pageable.offset < 0
  \/ last'.op = "save" /\ last'.entity.js # "object"
  \/ /\ last'.op = "save" /\ last'.entity.id \in {Omit, Undefined, Null, ""}
     /\ (repo.Default.type = Undefined \/ last'.entity.cls # repo.Default.type)
     /\ last'.entity.cls \notin KeysOf(repo)
  \/ last'.op = "deleteAll" /\ last'.options.filters.js = Null

\* C19 (as stated): an operation that fails with InvalidArgument has issued
\* no call to the store, read or write, before it fails.
C19_InvalidArgumentBeforeStore ==
  [][(PublicStep /\ last'.out.kind = "IllegalArgumentException") =>
       last'.out.calls = <<>> /\ db' = db]_vars

\* C19 (amended): the InvalidArgument failure of a guard on the arguments
\* comes before any call to the store; the other InvalidArgument failures
\* follow calls to the store: save with an id that matches no document
\* fails after the one read of update and writes nothing, findAll fails
\* after its find when a document found has no registered constructor,
\* save fails after its write when the document written has none, and
\* deleteAll fails inside its transaction, which is aborted.
C19_GuardsBeforeStore ==
  [][PublicStep =>
       IF GuardFails
       THEN /\ last'.out.kind = "IllegalArgumentException"
            /\ last'.out.calls = <<>>
            /\ db' = db
       ELSE last'.out.kind = "IllegalArgumentException" =>
              CASE last'.op = "save" /\ last'.entity.id \notin IdsOf(db.main)
                                     /\ last'.entity.id \notin {Omit, Undefined, Null, ""} ->
                     /\ last'.out.calls = <<Call("findById", NoSession)>>
                     /\ db' = db
                [] last'.op = "save" /\ last'.entity.id \in IdsOf(db.main) ->
                     /\ last'.out.calls = <<Call("findById", NoSession), Call("save", NoSession)>>
                     /\ Unregistered(DocOf(db'.main, last'.entity.id))
                [] last'.op = "save" /\ last'.entity.id \in {Omit, Undefined, Null, ""} ->
                     /\ last'.out.calls = <<Call("save", NoSession)>>
                     /\ Len(db'.main) = Len(db.main) + 1
                     /\ Unregistered(db'.main[Len(db'.main)])
                [] last'.op = "findAll" ->
                     /\ last'.out.calls = <<Call("find", NoSession)>>
                     /\ \E i \in 1..Len(db.main) : Unregistered(db.main[i])
                     /\ db' = db
                [] last'.op = "deleteAll" ->
                     /\ last'.out.calls[1].fn = "startTransaction"
                     /\ last'.out.calls[Len(last'.out.calls)].fn = "abortTransaction"
                     /\ db'.main = db.main
                [] OTHER -> FALSE]_vars

\* a deleteAll begun beside another that was still open failed with
\* InvalidArgument inside its transaction: its find had met a document
\* without registered constructor
C19_Witness ==
  /\ last.op = "deleteAll" /\ last.options.filters.js # Null
  /\ last.out.kind = "IllegalArgumentException"
  /\ Len(last.out.calls) > 1 /\ Len(db.main) = 2
  /\ \E session \in Sessions :
       txn[session].status = "active" /\ TxChanged(db, session) # {}

\* C20: however the reads and writes of concurrent saves of one auditable
\* id fall, every update that succeeds leaves the stored version one above
\* the version stored just before its write (so k successful updates after
\* the insert leave version k), and the stored version never goes down.
C20_ConcurrentVersionBookkeeping ==
  [][repo.auditable =>
       /\ \A c \in Callers :
            (WriteStep(c) /\ last'.out.kind = "ok") =>
              /\ pending[c].entity.id \in IdsOf(db.main) \cap IdsOf(db'.main)
              /\ DocOf(db'.main, pending[c].entity.id).v =
                   DocOf(db.main, pending[c].entity.id).v + 1
       /\ \A id \in IdsOf(db.main) \cap IdsOf(db'.main) :
            DocOf(db'.main, id).v >= DocOf(db.main, id).v]_vars

\* an operation was just carried out, standalone or inside a unit of work
OperationStep ==
  /\ last.op = "none"
  /\ last'.op \in {"findById", "findOne", "findAll", "save", "deleteById",
                   "runInTransaction"}

\* the sessions of the calls to the store named fn, in the order issued
SessionsOf(calls, fn) ==
  [i \in 1..Len(SelectSeq(calls, LAMBDA call : call.fn = fn)) |->
     SelectSeq(calls, LAMBDA call : call.fn = fn)[i].session]

\* C21: every call to the store an operation issues is under the session
\* of the operation's options, or under none when the options carry none:
\* an update reads and writes under the same session; deleteAll issues its
\* find and every read and write of its saveAll under the session of its
\* own transaction; and while a unit of work is open its saves leave the
\* committed collection as it was.
C21_SessionThreaded ==
  [][/\ OperationStep =>
          \A i \in 1..Len(last'.out.calls) :
             last'.out.calls[i].session = last'.options.session
     /\ (OperationStep /\ last'.op = "save" /\ last'.out.kind = "ok"
            /\ last'.entity.id \notin {Omit, Undefined, Null, ""}) =>
          last'.out.calls = <<Call("findById", last'.options.session),
                              Call("save", last'.options.session)>>
     /\ (last.op = "none" /\ last'.op = "deleteAll" /\ last'.options.filters.js # Null) =>
          \E session \in Sessions :
            /\ last'.out.calls[1] = Call("startTransaction", session)
            /\ \A i \in 1..Len(last'.out.calls) : last'.out.calls[i].session = session
            /\ SessionsOf(last'.out.calls, "find") = <<session>>
            /\ \A other \in Sessions \ {session} : db'.tx[other] = db.tx[other]
     /\ \A session \in Sessions :
          (UnitStep(session) /\ txn'[session].status = "active") => db'.main = db.main]_vars

\* an update was carried out inside a unit of work beside another open
\* unit of work: its read and its write went under its own session and the
\* committed document is still the one stored before
C21_Witness ==
  \E session \in Sessions :
    /\ last.op = "save" /\ last.options.session = session
    /\ last.out.kind = "ok"
    /\ last.out.calls = <<Call("findById", session), Call("save", session)>>
    /\ \A other \in Sessions : txn[other].status = "active"
    /\ last.entity.id \in IdsOf(db.main)
    /\ DocOf(db.main, last.entity.id) # DocOf(db.tx[session], last.entity.id)

\* C22: a standalone save that fails, whatever the error, leaves the
\* collection exactly as it was before the call: no document is written by
\* a save that then fails.
C22_FailedSaveWritesNothing ==
  [][(SaveStep /\ last'.options.session = NoSession /\ last'.out.kind # "ok") =>
       db'.main = db.main]_vars

\* the ids the store has generated that the collection no longer holds:
\* deleteById is the one operation that removes a document, so these are
\* the ids of the documents deleteById has answered true for
Removed(d) == {IdOf(n) : n \in 1..(d.nid - 1)} \ IdsOf(d.main)

\* C23: once deleteById(id) has answered true no document with that id is
\* stored again: a save that carries the id afterwards fails with
\* IllegalArgumentException and writes nothing, and the write of a save of
\* that id which had read the document before the delete writes nothing
\* either: it is turned away by the store, which has no document of the id
\* (or before that by the validation of the document, when the data it is
\* to write are invalid).
C23_DeletedIsTerminal ==
  [][/\ (last.op = "none" /\ last'.op = "deleteById" /\ last'.out.flag) =>
          last'.id \in Removed(db') \ Removed(db)
     /\ Removed(db) \subseteq Removed(db')
     /\ (SaveStep /\ last'.entity.id \in Removed(db)) =>
          /\ db'.main = db.main
          /\ \A c \in Callers :
               WriteStep(c) =>
                 IF Invalid(changed(repo, pending[c].document, pending[c].entity))
                 THEN /\ last'.out.kind = "ValidationException"
                      /\ last'.out.cause = "validation failed"
                 ELSE /\ last'.out.kind = "StoreError"
                      /\ last'.out.msg = "No document found for query"
          /\ (\A c \in Callers : ~WriteStep(c)) =>
               /\ last'.out.kind = "IllegalArgumentException"
               /\ last'.out.msg = "There is no document matching the given ID"]_vars

\* the write of a save that had read the document before it was deleted
\* was just turned away by the store, though the isbn of the document was
\* taken by a new one since, and the id is still gone
C23_Witness ==
  /\ last.op = "save" /\ last.entity.id \in Removed(db)
  /\ last.out.kind = "StoreError"
  /\ last.out.msg = "No document found for query"
  /\ last.out.calls = <<Call("findById", NoSession), Call("save", NoSession)>>
  /\ \E i \in 1..Len(db.main) : db.main[i].isbn = "n1"

====
